---- MODULE Spec2Model ----
(***************************************************************************)
(* Verification model of the real-time audio bridge of ai-sip-agent-v2:    *)
(* the CommandQueue (src/sip/command_queue.py), the reactor pump           *)
(* (src/main.py) and the per-call BotAudioStreamer / Call handlers         *)
(* (src/sip/call.py).                                                      *)
(***************************************************************************)
EXTENDS Integers, Sequences, FiniteSets, TLC

(***************************************************************************)
(* Bounds of the model.                                                    *)
(***************************************************************************)
\* number of put() calls made by threads other than the reactor
MaxCmds == 3
\* number of execute_pending() calls of the pump
MaxDrains == 3
\* number of audio bytes the AI endpoint delivers, in deltas of any sizes
MaxBytes == 2
\* number of other events of the AI endpoint: new replies, reply-finished
\* events and speech-started events, in any mix
MaxRxEvents == 3
\* last instant of the monotonic clock, in ms
MaxTime == 1
\* backlog of the reactor: the other threads hand it a further command only
\* while fewer than this many are waiting in the CommandQueue
MaxPending == 2
\* number of bytes fed to one reply when its segmentation is checked
MaxSegBytes == 4
\* number of incoming calls the account is offered
MaxCalls == 2
\* number of media-active events the engine reports, over all calls
MaxMediaEvents == 2
\* number of bytes the recorder appends to the tailed file after its header
MaxAppended == 5
\* number of frames the tail readers of a call yield to its pump threads
MaxFrames == 2
\* number of truncate requests the receive thread sends while the pumps run
MaxTruncates == 1
\* inbound messages delivered to on_message
MaxMessages == 3

(***************************************************************************)
(* Settings of the scheduler, read from the environment when a             *)
(* BotAudioStreamer is constructed (src/sip/call.py:242-246), here in ms.  *)
(***************************************************************************)
\* self.sample_rate before the first delta names another rate
DefaultSampleRate == 8000
\* BOT_SEGMENT_MS
segment_ms == 1
\* BOT_JITTER_MS
jitter_ms == 1
\* BOT_OVERLAP_MS
overlap_ms == 1
\* _tick: `still_time > -0.25`, the window after the expected end, in ms
TickWindowMs == 250
\* _tick: `... > 0.01`, the retry period, in ms
TickRetryMs == 10
\* length of the WAV header the tail reader skips (tail_wav.py:34)
HeaderBytes == 44
\* frame_bytes of iter_chunks, scaled down (tail_wav.py:40 gives 20 ms of samples)
frame_bytes == 2
\* the sample rates the AI endpoint reports with its deltas
SampleRates == {1000, 2000}
\* sample rates of the replies whose segmentation is checked
SegRates == {2000, 3000}
\* a BOT_JITTER_MS above the duration of one segment, and the sample rate of
\* the replies fed under it
HighJitterMs == 2
GateRate == 1000

(***************************************************************************)
(* State.                                                                  *)
(***************************************************************************)
VARIABLES
    cmdq,       \* CommandQueue._q: the FIFO of queued commands
    rpc,        \* reactor position: "idle" (between pump ticks) or "loop" (inside execute_pending)
    nextId,     \* identity given to the next generic command put
    putLog,     \* history: every put(), in order, with the drain that was running (0: none)
    execLog,    \* history: every command execution, in order, with the drain that ran it
    drainNo,    \* number of execute_pending() calls begun so far
    drainSnap,  \* ids of the commands queued when the current/last drain began
    drainRaised,\* whether the last drain ended because a command raised
    bas,        \* the call's BotAudioStreamer: its fields
    eng,        \* the telephony engine: players, segment files removed, what was made audible
    timers,     \* pending threading.Timer(delay, _tick): their deadlines, sorted
    segs,       \* history: every _emit_segment_locked call, in order (index = _counter + 1)
    now,        \* time.monotonic(), in ms
    rx,         \* the receive thread of the bridge: position, counters, truncate requests sent
    calls,      \* every Call object the account has constructed, in order: its fields
    registry,   \* Account.calls: the Call objects (by index) the account holds
    active,     \* CallProcessingPipeline._active_numbers
    arity_ok,   \* whether the Call class takes the two arguments onIncomingCall passes to prepare_recording
    tail,       \* a TailWavReader, the file it tails and the frames its iter_chunks has yielded
    conn,       \* the RealtimeClient objects of one call, their connection and the threads that use them
    lk,         \* BotAudioStreamer._lock: its holder, and what each thread still has to do in the call it is in
    pool        \* CallProcessingPipeline._executor: its futures, and what submit() has answered

cqLogVars == <<rpc, nextId, putLog, execLog, drainNo, drainSnap, drainRaised>>
basVars == <<bas, eng, timers, segs, now, rx>>
callVars == <<calls, registry, active, arity_ok>>
ioVars == <<tail, conn>>
lockVars == <<lk>>
poolVars == <<pool>>

vars == <<cmdq, rpc, nextId, putLog, execLog, drainNo, drainSnap, drainRaised,
          bas, eng, timers, segs, now, rx, calls, registry, active, arity_ok, tail, conn, lk, pool>>

(***************************************************************************)
(* CommandQueue (src/sip/command_queue.py).                                *)
(***************************************************************************)
\* The callables the generic queue model is exercised with: one that
\* returns, one that raises, one that calls put() itself while it runs.
GenericKinds == {"nop", "raise", "reput"}

Cmd(kind, id) == [kind |-> kind, id |-> id, seg |-> 0, dur |-> 0, pl |-> 0]

\* a LIFO put, the order a queue.LifoQueue would give
QPut_Lifo(q, c) == <<c>> \o q

\* CommandQueue.put: self._q.put((func, args, kwargs)) on a queue.Queue (FIFO)
QPut(q, c) == Append(q, c)

\* queue.Queue.get_nowait: the item returned
QGetItem(q) == Head(q)

\* queue.Queue.get_nowait: the queue left behind
QGetRest(q) == Tail(q)

RunningDrain == IF rpc = "loop" THEN drainNo ELSE 0

QueuedIds(q) == {q[i].id : i \in 1..Len(q)}

\* put() of a generic callable from a thread other than the reactor; it may
\* happen between two pump ticks or while execute_pending() is running.
Put(kind) ==
    /\ nextId <= MaxCmds
    /\ cmdq' = QPut(cmdq, Cmd(kind, nextId))
    /\ putLog' = Append(putLog, [id |-> nextId, during |-> RunningDrain])
    /\ nextId' = nextId + 1
    /\ UNCHANGED <<rpc, execLog, drainNo, drainSnap, drainRaised, bas, eng, timers, segs, now, rx, callVars, lockVars, poolVars, ioVars>>

\* pjsua_pump calls cmdq.execute_pending() (src/main.py:34)
ExecutePendingBegin ==
    /\ rpc = "idle"
    /\ drainNo < MaxDrains
    /\ rpc' = "loop"
    /\ drainNo' = drainNo + 1
    /\ drainSnap' = QueuedIds(cmdq)
    /\ drainRaised' = FALSE
    /\ UNCHANGED <<cmdq, nextId, putLog, execLog, bas, eng, timers, segs, now, rx, callVars, lockVars, poolVars, ioVars>>

\* one iteration of the while loop: get_nowait() succeeded, func() returned
\* normally, task_done()
ExecuteNop ==
    /\ rpc = "loop"
    /\ cmdq # <<>>
    /\ QGetItem(cmdq).kind = "nop"
    /\ cmdq' = QGetRest(cmdq)
    /\ execLog' = Append(execLog, [id |-> QGetItem(cmdq).id, drain |-> drainNo])
    /\ UNCHANGED <<rpc, nextId, putLog, drainNo, drainSnap, drainRaised, bas, eng, timers, segs, now, rx, callVars, lockVars, poolVars, ioVars>>

\* one iteration in which func() itself calls put() (as _advance, _play_next
\* and _tick-scheduled commands of the streamer do) and then returns
ExecuteReput ==
    /\ rpc = "loop"
    /\ cmdq # <<>>
    /\ QGetItem(cmdq).kind = "reput"
    /\ cmdq' = QPut(QGetRest(cmdq), Cmd("nop", QGetItem(cmdq).id + 10))
    /\ putLog' = Append(putLog, [id |-> QGetItem(cmdq).id + 10, during |-> drainNo])
    /\ execLog' = Append(execLog, [id |-> QGetItem(cmdq).id, drain |-> drainNo])
    /\ UNCHANGED <<rpc, nextId, drainNo, drainSnap, drainRaised, bas, eng, timers, segs, now, rx, callVars, lockVars, poolVars, ioVars>>

\* one iteration in which func() raises: `finally: task_done()` runs and the
\* exception leaves execute_pending(); pjsua_pump catches it (src/main.py:35)
\* and the loop of this drain is over.
ExecuteRaise ==
    /\ rpc = "loop"
    /\ cmdq # <<>>
    /\ QGetItem(cmdq).kind = "raise"
    /\ cmdq' = QGetRest(cmdq)
    /\ execLog' = Append(execLog, [id |-> QGetItem(cmdq).id, drain |-> drainNo])
    /\ rpc' = "idle"
    /\ drainRaised' = TRUE
    /\ UNCHANGED <<nextId, putLog, drainNo, drainSnap, bas, eng, timers, segs, now, rx, callVars, lockVars, poolVars, ioVars>>

\* get_nowait() raised queue.Empty: break, execute_pending() returns
ExecutePendingEmpty ==
    /\ rpc = "loop"
    /\ cmdq = <<>>
    /\ rpc' = "idle"
    /\ UNCHANGED <<cmdq, nextId, putLog, execLog, drainNo, drainSnap, drainRaised, bas, eng, timers, segs, now, rx, callVars, lockVars, poolVars, ioVars>>

(***************************************************************************)
(* Initial values of the scheduler, the engine and the receive thread.     *)
(***************************************************************************)
\* no player / no item id (Python None)
None == 0

Max(a, b) == IF a >= b THEN a ELSE b

\* A deadline that has passed is kept as 0: a timer that is due, a player
\* that has played its file to the end.
Due(d, t) == IF d <= t THEN 0 ELSE d

\* segment_bytes = max(1, int(sample_rate * segment_ms / 1000))
SegmentBytes(sr) == Max(1, (sr * segment_ms) \div 1000)

\* BotAudioStreamer.__init__
BasInitial ==
    [ sample_rate       |-> DefaultSampleRate,
      jitter_ms         |-> jitter_ms,
      segment_bytes     |-> SegmentBytes(DefaultSampleRate),
      buf               |-> <<>>,
      queue             |-> <<>>,
      queued_ms         |-> 0,
      started           |-> FALSE,
      end_of_response   |-> FALSE,
      received_ms_total |-> 0,
      current_seg_dur_ms |-> 0,
      current_end_ts    |-> 0,
      current_seg_start_ts |-> 0,
      response_item_id  |-> None,
      player            |-> None,
      preloaded         |-> None,
      counter           |-> 0 ]

\* The engine as the call sees it once media is active: the call is
\* CONFIRMED and its audio media has a valid port; no player exists.
EngInitial ==
    [ call_active |-> TRUE,     \* Call._is_call_active()
      media_valid |-> TRUE,     \* Call._has_valid_port(self._audio_media)
      players     |-> <<>>,     \* every player created: [seg, st, end]
      removed     |-> {},       \* segment files removed by os.remove
      audible     |-> <<>>,     \* history: startTransmit executed on a player
      ctxs        |-> {},       \* history: the threads that performed an engine operation
      purged      |-> {} ]      \* history: segments active, preloaded or queued at an interruption

\* The receive thread of the bridge and what it has sent.
RxInitial ==
    [ pc       |-> "idle",      \* "speech": _on_vad_speech_started entered; "vad": is_playing() was true
      fed      |-> 0,           \* bytes delivered so far: the next byte is fed + 1
      events   |-> 0,           \* stream-start, reply-finished and speech-started events so far
      epochs   |-> 0,           \* replies started so far
      item_id  |-> None,        \* the bridge's last-seen item id
      truncs   |-> <<>>,        \* history: truncate requests sent, [item_id, ms]
      last     |-> [ms |-> 0, T |-> 0, Q |-> 0, R |-> 0, item_id |-> None] ]
                                \* history: the last interruption, what it saw and returned

\* TailWavReader.__init__ on a file that holds its 44-byte header and
\* nothing else yet
TailInitial ==
    [ size     |-> HeaderBytes, \* os.path.getsize(path): the file, header included
      exists   |-> TRUE,        \* the file is still at its path
      offset   |-> HeaderBytes, \* _offset
      fpos     |-> HeaderBytes, \* position of the file object _f
      seen     |-> HeaderBytes, \* the local `size` of iter_chunks
      pc       |-> "outer",     \* where iter_chunks is: "outer", "inner", "sleep", "done"
      stop     |-> FALSE,       \* stop_event.is_set()
      frames   |-> <<>>,        \* history: the frames yielded, [from, len]
      stop_size |-> 0,          \* history: the size of the file when the stop signal was set
      stop_frames |-> 0 ]       \* history: the number of frames yielded when it was set

\* the bridge side of a Call before its media is active: no RealtimeClient
\* has been constructed, no pump thread started
ConnInitial ==
    [ kwargs_ok   |-> TRUE,     \* RealtimeClient.__init__ takes the keyword arguments Call passes
      has_flusher |-> TRUE,     \* RealtimeClient has the attributes _start_flush_thread reads
      ctor_raised |-> 0,        \* history: media-active events on which the constructor raised
      stop     |-> FALSE,       \* Call._stop_stream is set
      cur      |-> 0,           \* Call._rt: the index of the RealtimeClient it names (0: None)
      rts      |-> <<>>,        \* the RealtimeClient objects constructed: [ws, lock, inside, sent]
      pumps    |-> <<>>,        \* the _stream_loop threads started: [pc, r, yielded, timed_out,
                                \* connected, closed, tail_closed]; the last three are
                                \* history: the RealtimeClient its connect() and its close()
                                \* were called on, the calls of TailWavReader.close() it made
      rx       |-> [pc |-> "idle", r |-> 0],  \* the receive thread sending a truncate request
      truncs   |-> 0,           \* truncate requests the receive thread has set out to send
      current_sr |-> DefaultSampleRate,       \* RealtimeClient._current_sr
      msg      |-> [kind |-> "none", d |-> 0, p |-> 0, j |-> 0, rate |-> 0, error |-> 0],
                                \* history: the last message on_message was called with
      msgs     |-> 0,           \* history: messages on_message was called with
      handled  |-> 0,           \* history: calls of on_message that returned
      escaped  |-> 0 ]          \* history: calls of on_message that an exception left

\* the threads that enter the scheduler: the bridge's receive thread, the
\* reactor (main thread) and the threads of the overlap timers
TimerThreads == {"timer1", "timer2"}

Threads == {"rx", "reactor"} \cup TimerThreads

\* BotAudioStreamer.__init__: self._lock = threading.Lock(), held by nobody
LkInitial ==
    [ holder   |-> "free",                       \* the thread inside "with self._lock", or "free"
      pc       |-> [t \in Threads |-> <<>>],     \* what each thread still has to do in its current call
      timers   |-> 0,                            \* threading.Timer objects started and not yet fired
      calls    |-> 0,                            \* calls and callbacks begun so far
      puts     |-> 0,                            \* history: cmdq.put calls so far
      executed |-> 0 ]                           \* history: commands taken and called by the reactor

\* CallProcessingPipeline.__init__: a ThreadPoolExecutor with nothing
\* submitted
PoolInitial ==
    [ shutdown |-> FALSE,     \* ThreadPoolExecutor.shutdown has been called
      futures  |-> <<>>,      \* every future executor.submit returned, in order: [phone, st, called_back]
      submits  |-> 0,         \* submit() calls so far
      rejected |-> 0,         \* history: submit() calls that found the identity active
      raised   |-> 0 ]        \* history: submit() calls in which executor.submit raised

CQInit ==
    /\ cmdq = <<>>
    /\ rpc = "idle"
    /\ nextId = 1
    /\ putLog = <<>>
    /\ execLog = <<>>
    /\ drainNo = 0
    /\ drainSnap = {}
    /\ drainRaised = FALSE
    /\ bas = BasInitial
    /\ eng = EngInitial
    /\ timers = <<>>
    /\ segs = <<>>
    /\ now = 0
    /\ rx = RxInitial
    /\ calls = <<>>
    /\ registry = <<>>
    /\ active = {}
    /\ arity_ok = TRUE
    /\ lk = LkInitial
    /\ pool = PoolInitial
    /\ tail = TailInitial
    /\ conn = ConnInitial

CQNext ==
    \/ \E k \in GenericKinds : Put(k)
    \/ ExecutePendingBegin
    \/ ExecuteNop
    \/ ExecuteReput
    \/ ExecuteRaise
    \/ ExecutePendingEmpty

SpecCQ == CQInit /\ [][CQNext]_vars

(***************************************************************************)
(* BotAudioStreamer (src/sip/call.py:228-576).  Its methods are written as *)
(* operators from a world w = [s: the streamer's fields, q: the            *)
(* CommandQueue, e: the engine, t: pending timers, g: segments emitted]    *)
(* to the world they leave; ctx names the thread that runs the code.       *)
(***************************************************************************)
World == [s |-> bas, q |-> cmdq, e |-> eng, t |-> timers, g |-> segs]

Commit(w) ==
    /\ bas' = w.s
    /\ cmdq' = w.q
    /\ eng' = w.e
    /\ timers' = w.t
    /\ segs' = w.g

\* a closure handed to cmdq.put: its kind and the values it captured
BasCmd(kind, seg, dur, pl) == [kind |-> kind, id |-> 0, seg |-> seg, dur |-> dur, pl |-> pl]

PutCmd(w, c) == [w EXCEPT !.q = QPut(w.q, c)]

\* a remainder duration rounded up to the next ms instead of truncated
DurationMs_RoundUp(nbytes, sr) == (nbytes * 1000 + sr - 1) \div sr

\* int(len(self._buf) * 1000 / self.sample_rate)
DurationMs(nbytes, sr) == (nbytes * 1000) \div sr

\* a telephony-engine mutating operation, and the thread that performs it
EngOp(w, op, ctx) == [w EXCEPT !.e.ctxs = @ \cup {ctx}]

\* Call._is_call_active() and Call._has_valid_port(self.call._audio_media)
CallUsable(w) == w.e.call_active /\ w.e.media_valid

\* Call._has_valid_port(p) for a player: getPortId() succeeds
PlayerValid(w, pl) == pl # None /\ w.e.players[pl].st # "deleted"

\* the segment file is still on disk (os.remove has not run on it)
FileExists(w, seg) == seg \notin w.e.removed

\* _create_player_for: _Player(); createPlayer(path, NO_LOOP).  The new
\* player's id is Len(players) + 1.
CreatePlayerFor(w, seg, ctx) ==
    EngOp([w EXCEPT !.e.players = Append(@, [seg |-> seg, st |-> "created", end |-> 0])],
          "createPlayer", ctx)

\* p.startTransmit(audio_media): a player that was not transmitting becomes
\* audible and will reach end-of-file after the duration of its file; on a
\* player that transmits already, or has played to its end, nothing starts.
StartTransmit(w, pl, ctx) ==
    LET p == w.e.players[pl]
        w1 == EngOp(w, "startTransmit", ctx)
    IN  IF p.st \in {"created", "stopped"}
        THEN [w1 EXCEPT !.e.players[pl].st = "tx",
                        !.e.players[pl].end = Due(now + w.g[p.seg].dur, now),
                        !.e.audible = Append(@, [seg |-> p.seg,
                                                 epoch |-> w.g[p.seg].epoch,
                                                 purged |-> p.seg \in w.e.purged])]
        ELSE w1

\* p.stopTransmit(audio_media)
StopTransmit(w, pl, ctx) ==
    LET w1 == EngOp(w, "stopTransmit", ctx)
    IN  IF w.e.players[pl].st = "tx"
        THEN [w1 EXCEPT !.e.players[pl].st = "stopped", !.e.players[pl].end = 0]
        ELSE w1

\* p.delete()
DeletePlayer(w, pl, ctx) ==
    [EngOp(w, "delete", ctx) EXCEPT !.e.players[pl].st = "deleted", !.e.players[pl].end = 0]

RECURSIVE InsertSorted(_, _)
InsertSorted(seq, x) ==
    IF seq = <<>> THEN <<x>>
    ELSE IF x <= Head(seq) THEN <<x>> \o seq
    ELSE <<Head(seq)>> \o InsertSorted(Tail(seq), x)

\* _emit_segment_locked; `written` is whether write_mulaw_wav succeeded
EmitSegmentLocked(w, ulaw_chunk, duration_ms, written) ==
    LET seg == w.s.counter + 1
        w1 == [w EXCEPT !.s.counter = @ + 1,
                        !.g = Append(@, [data |-> ulaw_chunk, dur |-> duration_ms,
                                         sr |-> w.s.sample_rate, epoch |-> rx.epochs,
                                         written |-> written])]
    IN  IF written
        THEN [w1 EXCEPT !.s.queue = Append(@, [seg |-> seg, dur |-> duration_ms]),
                        !.s.queued_ms = @ + duration_ms,
                        !.s.received_ms_total = @ + duration_ms]
        ELSE w1

\* _flush_segments_locked
RECURSIVE FlushSegmentsLocked(_, _)
FlushSegmentsLocked(w, written) ==
    IF Len(w.s.buf) >= w.s.segment_bytes
    THEN LET n == w.s.segment_bytes
             chunk == SubSeq(w.s.buf, 1, n)
             w1 == [w EXCEPT !.s.buf = SubSeq(@, n + 1, Len(@))]
         IN  FlushSegmentsLocked(EmitSegmentLocked(w1, chunk, segment_ms, written), written)
    ELSE w

\* _try_preload_next: the lock section and the put of _prep
TryPreloadNext(w) ==
    IF w.s.preloaded # None \/ w.s.queue = <<>>
    THEN w
    ELSE PutCmd(w, BasCmd("prep", Head(w.s.queue).seg, 0, None))

\* _schedule_overlap_start: threading.Timer(delay, _tick).start()
ScheduleOverlapStart(w, dur_ms) ==
    IF overlap_ms <= 0
    THEN w
    ELSE [w EXCEPT !.t = InsertSorted(@, Due(now + Max(0, dur_ms - overlap_ms), now))]

\* the closure _play_next of _start_next_locked, for (path, dur)
PlayNext(w, seg, dur, ctx) ==
    IF ~CallUsable(w) THEN w
    ELSE IF ~FileExists(w, seg) THEN w     \* createPlayer raises: "Segment play failed"
    ELSE LET pl == Len(w.e.players) + 1
             w1 == StartTransmit(CreatePlayerFor(w, seg, ctx), pl, ctx)
             w2 == [w1 EXCEPT !.s.player = pl,
                              !.s.current_end_ts = now + Max(0, dur),
                              !.s.current_seg_dur_ms = dur,
                              !.s.current_seg_start_ts = now]
         IN  ScheduleOverlapStart(TryPreloadNext(w2), dur)

\* a _start_next_locked that plays on the calling thread instead of
\* handing _play_next to the CommandQueue
StartNextLocked_Direct(w, ctx) ==
    IF w.s.queue = <<>> THEN w
    ELSE LET h == Head(w.s.queue)
         IN  PlayNext([w EXCEPT !.s.queue = Tail(@),
                                !.s.queued_ms = Max(0, @ - h.dur)], h.seg, h.dur, ctx)

\* a _start_next_locked that takes the segment off the queue and leaves the
\* counter as it was
StartNextLocked_KeepQueuedMs(w, ctx) ==
    IF w.s.queue = <<>>
    THEN IF w.s.end_of_response
         THEN [w EXCEPT !.s.started = FALSE, !.s.end_of_response = FALSE]
         ELSE w
    ELSE LET h == Head(w.s.queue)
             w1 == [w EXCEPT !.s.queue = Tail(@)]
         IN  PutCmd(w1, BasCmd("play_next", h.seg, h.dur, None))

\* _start_next_locked
StartNextLocked(w, ctx) ==
    IF w.s.queue = <<>>
    THEN IF w.s.end_of_response
         THEN [w EXCEPT !.s.started = FALSE, !.s.end_of_response = FALSE]
         ELSE w
    ELSE LET h == Head(w.s.queue)
             w1 == [w EXCEPT !.s.queue = Tail(@),
                             !.s.queued_ms = Max(0, @ - h.dur)]
         IN  PutCmd(w1, BasCmd("play_next", h.seg, h.dur, None))

\* a _maybe_start_locked that applies the jitter gate to every start, not
\* only to the first one of a reply
MaybeStartLocked_GateAgain(w, ctx) ==
    IF w.s.queued_ms >= w.s.jitter_ms /\ w.s.queue # <<>>
          /\ (~w.s.started \/ w.s.player = None)
    THEN StartNextLocked([w EXCEPT !.s.started = TRUE], ctx)
    ELSE w

\* _maybe_start_locked
MaybeStartLocked(w, ctx) ==
    IF ~w.s.started
    THEN IF w.s.queued_ms >= w.s.jitter_ms /\ w.s.queue # <<>>
         THEN StartNextLocked([w EXCEPT !.s.started = TRUE], ctx)
         ELSE w
    ELSE IF w.s.player = None /\ w.s.queue # <<>>
         THEN StartNextLocked(w, ctx)
         ELSE w

\* feed(ulaw_bytes, sample_rate), ulaw_bytes not empty
FeedLocked(w, ulaw_bytes, sample_rate, written, ctx) ==
    LET w1 == IF sample_rate # 0 /\ sample_rate # w.s.sample_rate
              THEN [w EXCEPT !.s.sample_rate = sample_rate,
                             !.s.segment_bytes = SegmentBytes(sample_rate)]
              ELSE w
        w2 == [w1 EXCEPT !.s.buf = @ \o ulaw_bytes]
    IN  MaybeStartLocked(FlushSegmentsLocked(w2, written), ctx)

\* an on_done that only marks the end of the reply and leaves the remainder
\* of the buffer unflushed
OnDoneLocked_NoFlush(w, written, ctx) ==
    MaybeStartLocked([w EXCEPT !.s.buf = <<>>, !.s.end_of_response = TRUE], ctx)

\* on_done()
OnDoneLocked(w, written, ctx) ==
    LET w1 == IF w.s.buf # <<>>
              THEN [EmitSegmentLocked(w, w.s.buf, DurationMs(Len(w.s.buf), w.s.sample_rate), written)
                        EXCEPT !.s.buf = <<>>]
              ELSE w
    IN  MaybeStartLocked([w1 EXCEPT !.s.end_of_response = TRUE], ctx)

\* _current_remaining_ms_locked
CurrentRemainingMs(s) ==
    IF s.player # None THEN Max(0, s.current_end_ts - now) ELSE 0

\* _compute_progress_ms_locked
ComputeProgressMs(s) ==
    Max(0, s.received_ms_total - (s.queued_ms + CurrentRemainingMs(s)))

SegOfPlayer(w, pl) == IF pl = None THEN {} ELSE {w.e.players[pl].seg}

\* interrupt_and_get_progress_ms: the state it leaves (it returns
\* ComputeProgressMs of the state it was called in)
InterruptLocked(w) ==
    LET p == w.s.player
        pre == w.s.preloaded
        w1 == [w EXCEPT !.s.player = None, !.s.preloaded = None,
                        !.e.purged = @ \cup SegOfPlayer(w, p) \cup SegOfPlayer(w, pre)
                                       \cup {w.s.queue[i].seg : i \in 1..Len(w.s.queue)}]
        w2 == PutCmd(w1, BasCmd("stop_active", 0, 0, p))
        w3 == IF pre # None THEN PutCmd(w2, BasCmd("delete_preloaded", 0, 0, pre)) ELSE w2
    IN  [w3 EXCEPT !.s.queue = <<>>, !.s.queued_ms = 0, !.s.buf = <<>>,
                   !.s.started = FALSE, !.s.end_of_response = FALSE]

\* a start_new_response that keeps the item id of a reply already tracked
StartNewResponseLocked_KeepId(w, item_id) ==
    [w EXCEPT !.s.response_item_id = IF @ = None THEN item_id ELSE @,
              !.s.received_ms_total = 0,
              !.s.queued_ms = 0,
              !.s.queue = <<>>,
              !.s.buf = <<>>,
              !.s.started = FALSE,
              !.s.end_of_response = FALSE]

\* a start_new_response that resets the counters and flags but keeps the
\* segments and bytes still pending
StartNewResponseLocked_KeepPending(w, item_id) ==
    [w EXCEPT !.s.response_item_id = item_id,
              !.s.received_ms_total = 0,
              !.s.queued_ms = 0,
              !.s.started = FALSE,
              !.s.end_of_response = FALSE]

\* start_new_response(item_id)
StartNewResponseLocked(w, item_id) ==
    [w EXCEPT !.s.response_item_id = item_id,
              !.s.received_ms_total = 0,
              !.s.queued_ms = 0,
              !.s.queue = <<>>,
              !.s.buf = <<>>,
              !.s.started = FALSE,
              !.s.end_of_response = FALSE]

\* an is_playing that reports the started flag instead of the active player
IsPlaying_Started(s) == s.started

\* is_playing()
IsPlaying(s) == s.player # None

\* current_item_id()
CurrentItemId(s) == s.response_item_id

(***************************************************************************)
(* The commands the streamer hands to the CommandQueue, as the reactor     *)
(* executes them.                                                          *)
(***************************************************************************)
\* _Player.onEof2._advance for player pl
Advance(w, pl, ctx) ==
    LET w1 == IF PlayerValid(w, pl) /\ w.e.media_valid THEN StopTransmit(w, pl, ctx) ELSE w
        w2 == [DeletePlayer(w1, pl, ctx) EXCEPT !.e.removed = @ \cup {w.e.players[pl].seg}]
        was_active == w2.s.player = pl
        w3 == IF was_active THEN [w2 EXCEPT !.s.player = None] ELSE w2
    IN  IF was_active /\ w3.s.queue # <<>> THEN StartNextLocked(w3, ctx) ELSE w3

\* _try_preload_next._prep for the path of segment seg
Prep(w, seg, ctx) ==
    IF ~CallUsable(w) THEN w
    ELSE IF ~FileExists(w, seg) THEN w     \* createPlayer raises: "Preload failed"
    ELSE [CreatePlayerFor(w, seg, ctx) EXCEPT !.s.preloaded = Len(w.e.players) + 1]

\* _schedule_overlap_start._tick._start_preloaded for the player pre
StartPreloaded(w, pre, ctx) ==
    IF ~CallUsable(w) THEN w
    ELSE IF ~PlayerValid(w, pre) THEN w    \* startTransmit raises: "Overlap start failed"
    ELSE LET w1 == StartTransmit(w, pre, ctx)
             w2 == [w1 EXCEPT !.s.player = pre, !.s.preloaded = None]
         IN  IF w2.s.queue # <<>>
             THEN LET h == Head(w2.s.queue)
                      w3 == [w2 EXCEPT !.s.queue = Tail(@),
                                       !.s.queued_ms = Max(0, @ - h.dur),
                                       !.s.current_end_ts = now + Max(0, h.dur),
                                       !.s.current_seg_dur_ms = h.dur,
                                       !.s.current_seg_start_ts = now]
                  IN  ScheduleOverlapStart(TryPreloadNext(w3), h.dur)
             ELSE TryPreloadNext(w2)

\* interrupt_and_get_progress_ms._stop_active and close._stop for player p
StopActive(w, p, ctx) ==
    IF p = None THEN w
    ELSE LET w1 == IF PlayerValid(w, p) /\ w.e.media_valid THEN StopTransmit(w, p, ctx) ELSE w
         IN  DeletePlayer(w1, p, ctx)

\* interrupt_and_get_progress_ms._delete_preloaded for player pre
DeletePreloaded(w, pre, ctx) ==
    IF pre = None THEN w ELSE DeletePlayer(w, pre, ctx)

\* _schedule_overlap_start._tick, run by a timer thread
Tick(w) ==
    LET pre == w.s.preloaded
        cur == w.s.player
        still_time == w.s.current_end_ts - now
    IN  IF pre # None /\ cur # None /\ still_time > -TickWindowMs
        THEN PutCmd(w, BasCmd("start_preloaded", 0, 0, pre))
        ELSE IF w.s.player # None /\ w.s.current_end_ts - now > TickRetryMs
             THEN [w EXCEPT !.t = InsertSorted(@, Due(now + TickRetryMs, now))]
             ELSE w

\* the reactor has not fallen behind by more than the modelled backlog
ReactorKeepsUp == Len(cmdq) < MaxPending

Popped == [World EXCEPT !.q = QGetRest(cmdq)]

HeadIs(kind) == cmdq # <<>> /\ QGetItem(cmdq).kind = kind

RunPlayNext ==
    /\ HeadIs("play_next")
    /\ Commit(PlayNext(Popped, QGetItem(cmdq).seg, QGetItem(cmdq).dur, "reactor"))
    /\ UNCHANGED <<cqLogVars, now, rx, callVars, lockVars, poolVars, ioVars>>

RunPrep ==
    /\ HeadIs("prep")
    /\ Commit(Prep(Popped, QGetItem(cmdq).seg, "reactor"))
    /\ UNCHANGED <<cqLogVars, now, rx, callVars, lockVars, poolVars, ioVars>>

RunAdvance ==
    /\ HeadIs("advance")
    /\ Commit(Advance(Popped, QGetItem(cmdq).pl, "reactor"))
    /\ UNCHANGED <<cqLogVars, now, rx, callVars, lockVars, poolVars, ioVars>>

RunStartPreloaded ==
    /\ HeadIs("start_preloaded")
    /\ Commit(StartPreloaded(Popped, QGetItem(cmdq).pl, "reactor"))
    /\ UNCHANGED <<cqLogVars, now, rx, callVars, lockVars, poolVars, ioVars>>

RunStopActive ==
    /\ HeadIs("stop_active")
    /\ Commit(StopActive(Popped, QGetItem(cmdq).pl, "reactor"))
    /\ UNCHANGED <<cqLogVars, now, rx, callVars, lockVars, poolVars, ioVars>>

RunDeletePreloaded ==
    /\ HeadIs("delete_preloaded")
    /\ Commit(DeletePreloaded(Popped, QGetItem(cmdq).pl, "reactor"))
    /\ UNCHANGED <<cqLogVars, now, rx, callVars, lockVars, poolVars, ioVars>>

(***************************************************************************)
(* The engine, the timers and the clock.                                   *)
(***************************************************************************)
\* the engine reports end-of-file of player pl: _Player.onEof2 puts _advance
PlayerEof(pl) ==
    /\ ReactorKeepsUp
    /\ eng.players[pl].st = "tx"
    /\ now >= eng.players[pl].end
    /\ Commit(PutCmd([World EXCEPT !.e.players[pl].st = "eof", !.e.players[pl].end = 0],
                      BasCmd("advance", 0, 0, pl)))
    /\ UNCHANGED <<cqLogVars, now, rx, callVars, lockVars, poolVars, ioVars>>

\* a timer whose delay has elapsed runs _tick (it may run late)
TimerFires ==
    /\ ReactorKeepsUp
    /\ timers # <<>>
    /\ Head(timers) <= now
    /\ Commit(Tick([World EXCEPT !.t = Tail(timers)]))
    /\ UNCHANGED <<cqLogVars, now, rx, callVars, lockVars, poolVars, ioVars>>

ClockTick ==
    /\ now < MaxTime
    /\ now' = now + 1
    /\ timers' = [i \in 1..Len(timers) |-> Due(timers[i], now + 1)]
    /\ eng' = [eng EXCEPT !.players = [i \in 1..Len(@) |-> [@[i] EXCEPT !.end = Due(@, now + 1)]]]
    /\ UNCHANGED <<cmdq, cqLogVars, bas, segs, rx, callVars, lockVars, poolVars, ioVars>>

(***************************************************************************)
(* The receive thread: inbound events of the AI endpoint, delivered to the *)
(* Call's handlers.                                                        *)
(***************************************************************************)
\* the bytes of a delta of n bytes: the next n bytes of the reply stream
DeltaBytes(n) == [i \in 1..n |-> rx.fed + i]

\* RealtimeClient.send_truncate(item_id, played_ms)
SendTruncate(truncs, item_id, played_ms) ==
    Append(truncs, [item_id |-> item_id, ms |-> played_ms])

\* Every audio delta carries the id of its reply, and the first delta of a
\* reply has announced it (on_assistant_stream_start) before its audio is
\* forwarded.
DeltaItemAnnounced == rx.item_id # None

\* a new reply starts: Call._on_assistant_stream_start(item_id)
RxStreamStart ==
    /\ ReactorKeepsUp
    /\ rx.pc = "idle"
    /\ rx.events < MaxRxEvents
    /\ Commit(StartNewResponseLocked(World, rx.epochs + 1))
    /\ rx' = [rx EXCEPT !.events = @ + 1, !.epochs = @ + 1, !.item_id = rx.epochs + 1]
    /\ UNCHANGED <<cqLogVars, now, callVars, lockVars, poolVars, ioVars>>

\* an audio delta: Call._on_bot_audio(audio_bytes, sample_rate).  The deltas
\* of one session come at one rate, that of the session's output format.
RxAudioDelta(n, sr) ==
    /\ ReactorKeepsUp
    /\ rx.pc = "idle"
    /\ rx.fed + n <= MaxBytes
    /\ (rx.fed = 0 \/ sr = bas.sample_rate)
    /\ DeltaItemAnnounced
    /\ Commit(FeedLocked(World, DeltaBytes(n), sr, TRUE, "rx"))
    /\ rx' = [rx EXCEPT !.fed = @ + n]
    /\ UNCHANGED <<cqLogVars, now, callVars, lockVars, poolVars, ioVars>>

\* a reply-finished event: Call._on_bot_audio_done()
RxAudioDone ==
    /\ ReactorKeepsUp
    /\ rx.pc = "idle"
    /\ rx.events < MaxRxEvents
    /\ Commit(OnDoneLocked(World, TRUE, "rx"))
    /\ rx' = [rx EXCEPT !.events = @ + 1]
    /\ UNCHANGED <<cqLogVars, now, callVars, lockVars, poolVars, ioVars>>

\* a speech-started event is delivered: Call._on_vad_speech_started is entered
RxSpeechStarted ==
    /\ rx.pc = "idle"
    /\ rx.events < MaxRxEvents
    /\ rx' = [rx EXCEPT !.events = @ + 1, !.pc = "speech"]
    /\ UNCHANGED <<cmdq, cqLogVars, bas, eng, timers, segs, now, callVars, lockVars, poolVars, ioVars>>

\* Call._on_vad_speech_started up to the is_playing() test
\* (src/sip/call.py:164-173): it returns when nothing is playing
RxVadTest ==
    /\ rx.pc = "speech"
    /\ rx' = [rx EXCEPT !.pc = IF IsPlaying(bas) THEN "vad" ELSE "idle"]
    /\ UNCHANGED <<cmdq, cqLogVars, bas, eng, timers, segs, now, callVars, lockVars, poolVars, ioVars>>

\* the item id _on_vad_speech_started puts in the truncate request: the
\* streamer's, else the bridge's last-seen one
TruncateItemId(s, rt_item_id) ==
    IF CurrentItemId(s) # None THEN CurrentItemId(s) ELSE rt_item_id

\* Call._on_vad_speech_started after the test (src/sip/call.py:174-203)
RxVadInterrupt ==
    /\ ReactorKeepsUp
    /\ rx.pc = "vad"
    /\ LET played_ms == ComputeProgressMs(bas)
           w == InterruptLocked(World)
           item_id == TruncateItemId(w.s, rx.item_id)
       IN  /\ Commit(w)
           /\ rx' = [rx EXCEPT !.pc = "idle",
                               !.truncs = IF item_id # None
                                          THEN SendTruncate(@, item_id, played_ms)
                                          ELSE @,
                               !.last = [ms |-> played_ms,
                                         T |-> bas.received_ms_total,
                                         Q |-> bas.queued_ms,
                                         R |-> CurrentRemainingMs(bas),
                                         item_id |-> bas.response_item_id]]
    /\ UNCHANGED <<cqLogVars, now, callVars, lockVars, poolVars, ioVars>>

Init == CQInit

BASNext ==
    \/ RxStreamStart
    \/ \E n \in 1..MaxBytes : \E sr \in SampleRates : RxAudioDelta(n, sr)
    \/ RxAudioDone
    \/ RxSpeechStarted
    \/ RxVadTest
    \/ RxVadInterrupt
    \/ RunPlayNext
    \/ RunPrep
    \/ RunAdvance
    \/ RunStartPreloaded
    \/ RunStopActive
    \/ RunDeletePreloaded
    \/ \E pl \in 1..Len(eng.players) : PlayerEof(pl)
    \/ TimerFires
    \/ ClockTick

SpecBAS == Init /\ [][BASNext]_vars

(***************************************************************************)
(* One reply fed to the scheduler and closed: feed() calls at one sample   *)
(* rate, then on_done(), with the reactor, the timers and the clock        *)
(* running and no interruption.                                            *)
(***************************************************************************)
\* feed(ulaw_bytes, sample_rate) with the next n bytes of the reply
SegFeed(n, sr) ==
    /\ ReactorKeepsUp
    /\ ~bas.end_of_response
    /\ rx.fed + n <= MaxSegBytes
    /\ (rx.fed = 0 \/ sr = bas.sample_rate)
    /\ Commit(FeedLocked(World, DeltaBytes(n), sr, TRUE, "rx"))
    /\ rx' = [rx EXCEPT !.fed = @ + n]
    /\ UNCHANGED <<cqLogVars, now, callVars, lockVars, poolVars, ioVars>>

\* on_done(), once, after the last feed()
SegDone ==
    /\ ReactorKeepsUp
    /\ ~bas.end_of_response
    /\ Commit(OnDoneLocked(World, TRUE, "rx"))
    /\ UNCHANGED <<cqLogVars, now, rx, callVars, lockVars, poolVars, ioVars>>

SegNext ==
    \/ \E n \in 1..MaxSegBytes : \E sr \in SegRates : SegFeed(n, sr)
    \/ SegDone
    \/ RunPlayNext
    \/ RunPrep
    \/ RunAdvance
    \/ RunStartPreloaded
    \/ \E pl \in 1..Len(eng.players) : PlayerEof(pl)
    \/ TimerFires
    \/ ClockTick

SpecSeg == Init /\ [][SegNext]_vars

(***************************************************************************)
(* One reply fed and closed while no overlap timer ever fires: the timers  *)
(* _schedule_overlap_start starts stay pending, so no _tick runs and no    *)
(* _start_preloaded is queued.  The reactor keeps draining the             *)
(* CommandQueue, the engine reports every end of file and time passes.     *)
(***************************************************************************)
\* a player is transmitting and has not reached the end of its file
Playing == \E pl \in 1..Len(eng.players) : eng.players[pl].st = "tx" /\ eng.players[pl].end > now

\* time passes: freely up to MaxTime, and beyond it for as long as a player
\* is playing
PlayClockTick ==
    /\ now < MaxTime \/ Playing
    /\ now' = now + 1
    /\ timers' = [i \in 1..Len(timers) |-> Due(timers[i], now + 1)]
    /\ eng' = [eng EXCEPT !.players = [i \in 1..Len(@) |-> [@[i] EXCEPT !.end = Due(@, now + 1)]]]
    /\ UNCHANGED <<cmdq, cqLogVars, bas, segs, rx, callVars, lockVars, poolVars, ioVars>>

EofNext ==
    \/ \E n \in 1..MaxSegBytes : \E sr \in SegRates : SegFeed(n, sr)
    \/ SegDone
    \/ RunPlayNext
    \/ RunPrep
    \/ RunAdvance
    \/ \E pl \in 1..Len(eng.players) : PlayerEof(pl)
    \/ PlayClockTick

SpecEof == Init /\ [][EofNext]_vars

SpecEofLive ==
    /\ SpecEof
    /\ WF_vars(RunPlayNext) /\ WF_vars(RunPrep) /\ WF_vars(RunAdvance)
    /\ WF_vars(\E pl \in 1..Len(eng.players) : PlayerEof(pl))
    /\ WF_vars(PlayClockTick)

(***************************************************************************)
(* A scheduler whose jitter threshold is above the duration of one         *)
(* segment: replies start, are fed and closed, the reactor, the timers and *)
(* the clock run; no reply is interrupted.                                 *)
(***************************************************************************)
GateInit ==
    /\ cmdq = <<>>
    /\ rpc = "idle"
    /\ nextId = 1
    /\ putLog = <<>>
    /\ execLog = <<>>
    /\ drainNo = 0
    /\ drainSnap = {}
    /\ drainRaised = FALSE
    /\ bas = [BasInitial EXCEPT !.jitter_ms = HighJitterMs]
    /\ eng = EngInitial
    /\ timers = <<>>
    /\ segs = <<>>
    /\ now = 0
    /\ rx = RxInitial
    /\ calls = <<>>
    /\ registry = <<>>
    /\ active = {}
    /\ arity_ok = TRUE
    /\ lk = LkInitial
    /\ pool = PoolInitial
    /\ tail = TailInitial
    /\ conn = ConnInitial

GateNext ==
    \/ RxStreamStart
    \/ \E n \in 1..MaxSegBytes : DeltaItemAnnounced /\ SegFeed(n, GateRate)
    \/ RxAudioDone
    \/ RunPlayNext
    \/ RunPrep
    \/ RunAdvance
    \/ RunStartPreloaded
    \/ \E pl \in 1..Len(eng.players) : PlayerEof(pl)
    \/ TimerFires
    \/ ClockTick

SpecGate == GateInit /\ [][GateNext]_vars

(***************************************************************************)
(* Account and Call (src/sip/account.py, src/sip/call.py:15-225) and the   *)
(* busy guard of the processing pipeline (src/processing/pipeline.py).     *)
(* calls holds every Call object constructed; a Call is named by its index. *)
(* The engine callbacks (onIncomingCall, onCallState, onCallMediaState) and *)
(* the queued commands run on the reactor thread; each Call's ingress pump  *)
(* and the bridge callbacks run on threads of their own.                    *)
(***************************************************************************)
\* caller identities of 11 digits
Phones == {1}

\* what an INVITE can carry: a scanner's user agent in the remote URI, a URI
\* with no sip:user@ part, a number that is not 11 digits, an 11-digit number
Callers ==
    {[kind |-> k, digits |-> 0] : k \in {"scanner", "nophone", "short"}}
        \cup {[kind |-> "ru", digits |-> d] : d \in Phones}

\* Call.__init__, with the history of what onIncomingCall decided for it
CallInitial(caller, busy) ==
    [caller |-> caller,
     busy |-> busy,               \* history: the identity was in _active_numbers on arrival
     verdict |-> "none",          \* history: the branch onIncomingCall left by
     state |-> "incoming",        \* the engine's invite state: incoming, confirmed, hangup, disconnected
     recording_path |-> FALSE,    \* _recording_path is set
     audio_media |-> FALSE,       \* _audio_media is set
     recorder |-> FALSE,          \* _recorder is set
     recorders |-> 0,             \* AudioMediaRecorder objects created and transmitted to
     rt |-> FALSE,                \* _rt is set and that RealtimeClient is not closed
     bridges |-> 0,               \* RealtimeClient objects constructed and not closed
     pumps |-> <<>>,              \* the _stream_loop threads started: the position of each
     tail |-> FALSE,              \* _tail is set
     tails |-> 0,                 \* TailWavReader objects open
     streamers |-> 0,             \* BotAudioStreamer objects constructed
     stop_stream |-> FALSE,       \* _stop_stream is set
     media_events |-> 0,          \* history: onCallMediaState calls with active audio
     deleted |-> FALSE,           \* Call.delete() has released the engine handle
     escaped |-> FALSE]           \* history: an exception left one of the Call's engine-event handlers

CallCmd(kind, c) == [kind |-> kind, id |-> 0, seg |-> 0, dur |-> 0, pl |-> c]

\* an is_processing that never finds the number
IsProcessing_Never(act, phone) == FALSE

\* CallProcessingPipeline.is_processing
IsProcessing(act, phone) == phone \in act

\* CallProcessingPipeline.submit, as far as the busy guard goes
Submit(p) ==
    /\ active' = active \cup {p}
    /\ UNCHANGED <<cmdq, cqLogVars, basVars, calls, registry, arity_ok, lockVars, poolVars, ioVars>>

\* CallProcessingPipeline._on_done
PipelineOnDone(p) ==
    /\ p \in active
    /\ active' = active \ {p}
    /\ UNCHANGED <<cmdq, cqLogVars, basVars, calls, registry, arity_ok, lockVars, poolVars, ioVars>>

\* Call.prepare_recording
PrepareRecording(call) == [call EXCEPT !.recording_path = TRUE]

\* the branch Account.onIncomingCall takes for a caller
Verdict(caller, act) ==
    IF caller.kind = "scanner" THEN "scanner"
    ELSE IF caller.kind = "nophone" THEN "nophone"
    ELSE IF caller.kind = "short" THEN "non11"
    ELSE IF IsProcessing(act, caller.digits) THEN "busy"
    ELSE "accept"

\* Account.onIncomingCall.  The Call is constructed and appended to
\* Account.calls before any check.  prepare_recording is called with two
\* arguments (account.py:79) while Call.prepare_recording takes one
\* (call.py:96): with that Call class the handler ends there with a
\* TypeError (arity_ok is FALSE); with a Call class that takes the number too
\* it goes on to queue the answer.
OnIncomingCall(caller) ==
    LET c == Len(calls) + 1
        v == Verdict(caller, active)
        new == CallInitial(caller, caller.kind = "ru" /\ caller.digits \in active)
    IN  /\ Len(calls) < MaxCalls
        /\ ReactorKeepsUp
        /\ registry' = Append(registry, c)
        /\ IF v = "busy"
           THEN /\ calls' = Append(calls, [new EXCEPT !.verdict = v])
                /\ cmdq' = QPut(cmdq, CallCmd("reject", c))
           ELSE IF v = "accept" /\ arity_ok
           THEN /\ calls' = Append(calls, [PrepareRecording(new) EXCEPT !.verdict = v])
                /\ cmdq' = QPut(cmdq, CallCmd("answer", c))
           ELSE IF v = "accept"
           THEN /\ calls' = Append(calls, [new EXCEPT !.verdict = "raised", !.escaped = TRUE])
                /\ cmdq' = cmdq
           ELSE /\ calls' = Append(calls, [new EXCEPT !.verdict = v])
                /\ cmdq' = cmdq
        /\ UNCHANGED <<cqLogVars, basVars, active, arity_ok, lockVars, poolVars, ioVars>>

\* the reactor runs _reject: call.hangup(486) inside try/except
RunReject ==
    /\ HeadIs("reject")
    /\ LET c == QGetItem(cmdq).pl
       IN  calls' = [calls EXCEPT ![c].state =
                        IF @ \in {"incoming", "confirmed"} THEN "hangup" ELSE @]
    /\ cmdq' = QGetRest(cmdq)
    /\ UNCHANGED <<cqLogVars, basVars, registry, active, arity_ok, lockVars, poolVars, ioVars>>

\* the reactor runs _answer: call.answer(200) inside try/except
RunAnswer ==
    /\ HeadIs("answer")
    /\ LET c == QGetItem(cmdq).pl
       IN  calls' = [calls EXCEPT ![c].state =
                        IF @ = "incoming" THEN "confirmed" ELSE @]
    /\ cmdq' = QGetRest(cmdq)
    /\ UNCHANGED <<cqLogVars, basVars, registry, active, arity_ok, lockVars, poolVars, ioVars>>

\* Call._start_streaming_thread
StartStreamingThread(call) ==
    IF ~call.recording_path THEN call
    ELSE [call EXCEPT !.stop_stream = FALSE,
                      !.rt = TRUE,
                      !.bridges = @ + 1,
                      !.pumps = Append(@, "connect")]

\* Call.onCallMediaState for a call whose audio media is active
OnCallMediaState(call) ==
    LET m == [call EXCEPT !.audio_media = TRUE, !.media_events = @ + 1]
    IN  IF m.recording_path
        THEN StartStreamingThread([m EXCEPT !.recorder = TRUE, !.recorders = @ + 1])
        ELSE m

RECURSIVE MediaEvents(_)
MediaEvents(cs) == IF cs = <<>> THEN 0 ELSE Head(cs).media_events + MediaEvents(Tail(cs))

\* the engine reports active audio media on an answered call; it does so
\* again on a re-INVITE or a media update
MediaActive(c) ==
    /\ calls[c].state = "confirmed"
    /\ MediaEvents(calls) < MaxMediaEvents
    /\ calls' = [calls EXCEPT ![c] = OnCallMediaState(@)]
    /\ UNCHANGED <<cmdq, cqLogVars, basVars, registry, active, arity_ok, lockVars, poolVars, ioVars>>

\* Call.onCallState with state DISCONNECTED: the stop signal, the
\* scheduler's close(), _cleanup_media() and the put of _finalize
OnCallStateDisconnected(c) ==
    /\ calls' = [calls EXCEPT ![c].state = "disconnected",
                              ![c].stop_stream = TRUE]
    /\ cmdq' = QPut(QPut(cmdq, CallCmd("cleanup_media", c)), CallCmd("finalize", c))

\* the call ends: the peer cancels or hangs up, or the hangup sent by
\* _reject completes
Disconnected(c) ==
    /\ calls[c].state \in {"incoming", "confirmed", "hangup"}
    /\ ReactorKeepsUp
    /\ OnCallStateDisconnected(c)
    /\ UNCHANGED <<cqLogVars, basVars, registry, active, arity_ok, lockVars, poolVars, ioVars>>

\* the reactor runs _do of Call._cleanup_media
RunCleanupMedia ==
    /\ HeadIs("cleanup_media")
    /\ LET c == QGetItem(cmdq).pl
       IN  calls' = [calls EXCEPT ![c].recorder = FALSE, ![c].audio_media = FALSE]
    /\ cmdq' = QGetRest(cmdq)
    /\ UNCHANGED <<cqLogVars, basVars, registry, active, arity_ok, lockVars, poolVars, ioVars>>

\* a removal that drops the head of the list, whichever Call it is
Remove_Head(reg, c) == Tail(reg)

\* list.remove of the first occurrence
Remove(reg, c) ==
    LET i == CHOOSE k \in 1..Len(reg) : reg[k] = c /\ \A j \in 1..(k - 1) : reg[j] # c
    IN  SubSeq(reg, 1, i - 1) \o SubSeq(reg, i + 1, Len(reg))

\* the reactor runs _finalize: self.delete(), then the removal from
\* Account.calls if the Call is in it
RunFinalize ==
    /\ HeadIs("finalize")
    /\ LET c == QGetItem(cmdq).pl
       IN  /\ calls' = [calls EXCEPT ![c].deleted = TRUE]
           /\ registry' = IF \E k \in 1..Len(registry) : registry[k] = c
                          THEN Remove(registry, c) ELSE registry
    /\ cmdq' = QGetRest(cmdq)
    /\ UNCHANGED <<cqLogVars, basVars, active, arity_ok, lockVars, poolVars, ioVars>>

\* Call._stream_loop up to the loop: connect(), update_session(), the
\* TailWavReader
PumpConnect(c, i) ==
    /\ calls[c].pumps[i] = "connect"
    /\ calls' = [calls EXCEPT ![c].pumps[i] = "loop",
                              ![c].tail = TRUE,
                              ![c].tails = @ + 1]
    /\ UNCHANGED <<cmdq, cqLogVars, basVars, registry, active, arity_ok, lockVars, poolVars, ioVars>>

\* the finally block of Call._stream_loop: close() of whatever _rt and
\* _tail name now, and _tail = None
StreamLoopFinally(call, i) ==
    [call EXCEPT !.pumps[i] = "done",
                 !.rt = FALSE,
                 !.bridges = IF call.rt THEN @ - 1 ELSE @,
                 !.tail = FALSE,
                 !.tails = IF call.tail THEN @ - 1 ELSE @]

\* iter_chunks sees the stop signal and ends: the thread goes to its finally
PumpExit(c, i) ==
    /\ calls[c].pumps[i] = "loop"
    /\ calls[c].stop_stream
    /\ calls' = [calls EXCEPT ![c] = StreamLoopFinally(@, i)]
    /\ UNCHANGED <<cmdq, cqLogVars, basVars, registry, active, arity_ok, lockVars, poolVars, ioVars>>

\* Call._on_bot_audio and Call._on_assistant_stream_start, called by a
\* connected bridge: the BotAudioStreamer is made if there is none
OnBotAudio(c) ==
    /\ \E i \in 1..Len(calls[c].pumps) : calls[c].pumps[i] = "loop"
    /\ calls' = [calls EXCEPT ![c].streamers = IF @ = 0 THEN 1 ELSE @]
    /\ UNCHANGED <<cmdq, cqLogVars, basVars, registry, active, arity_ok, lockVars, poolVars, ioVars>>

\* the Call class is either the one of call.py or one that matches the
\* call in account.py
CallInit ==
    /\ cmdq = <<>>
    /\ rpc = "idle"
    /\ nextId = 1
    /\ putLog = <<>>
    /\ execLog = <<>>
    /\ drainNo = 0
    /\ drainSnap = {}
    /\ drainRaised = FALSE
    /\ bas = BasInitial
    /\ eng = EngInitial
    /\ timers = <<>>
    /\ segs = <<>>
    /\ now = 0
    /\ rx = RxInitial
    /\ calls = <<>>
    /\ registry = <<>>
    /\ active = {}
    /\ arity_ok \in BOOLEAN
    /\ lk = LkInitial
    /\ pool = PoolInitial
    /\ tail = TailInitial
    /\ conn = ConnInitial

CallNext ==
    \/ \E caller \in Callers : OnIncomingCall(caller)
    \/ RunReject
    \/ RunAnswer
    \/ \E c \in 1..Len(calls) : MediaActive(c)
    \/ \E c \in 1..Len(calls) : Disconnected(c)
    \/ RunCleanupMedia
    \/ RunFinalize
    \/ \E c \in 1..Len(calls) : \E i \in 1..Len(calls[c].pumps) : PumpConnect(c, i)
    \/ \E c \in 1..Len(calls) : \E i \in 1..Len(calls[c].pumps) : PumpExit(c, i)
    \/ \E c \in 1..Len(calls) : OnBotAudio(c)
    \/ \E p \in Phones : Submit(p)
    \/ \E p \in Phones : PipelineOnDone(p)

SpecCall == CallInit /\ [][CallNext]_vars

(***************************************************************************)
(* The end of a call that is streaming: the Call of index 1 is answered,   *)
(* its media is active and bas is its scheduler, playing one reply; the    *)
(* engine then reports DISCONNECTED.                                       *)
(***************************************************************************)
\* the Call after onIncomingCall, _answer, onCallMediaState, a connected
\* pump and the first bridge callback
StreamingCall ==
    [CallInitial([kind |-> "ru", digits |-> 1], FALSE) EXCEPT
        !.verdict = "accept", !.state = "confirmed", !.recording_path = TRUE,
        !.audio_media = TRUE, !.recorder = TRUE, !.recorders = 1,
        !.rt = TRUE, !.bridges = 1, !.pumps = <<"loop">>,
        !.tail = TRUE, !.tails = 1, !.streamers = 1, !.media_events = 1]

\* a close() that drops the active player without queueing its stop
CloseLocked_NoStop(w) ==
    [w EXCEPT !.s.queue = <<>>, !.s.queued_ms = 0, !.s.buf = <<>>,
              !.s.end_of_response = TRUE, !.s.player = None]

\* a close() that queues the stop of the active player but keeps the player
CloseLocked_KeepPlayer(w) ==
    LET w1 == [w EXCEPT !.s.queue = <<>>, !.s.queued_ms = 0, !.s.buf = <<>>,
                        !.s.end_of_response = TRUE]
    IN  IF w.s.player # None
        THEN PutCmd(w1, BasCmd("close_stop", 0, 0, w.s.player))
        ELSE w1

\* BotAudioStreamer.close, under the lock
CloseLocked(w) ==
    LET p == w.s.player
        w1 == [w EXCEPT !.s.queue = <<>>, !.s.queued_ms = 0, !.s.buf = <<>>,
                        !.s.end_of_response = TRUE]
    IN  IF p # None
        THEN PutCmd([w1 EXCEPT !.s.player = None], BasCmd("close_stop", 0, 0, p))
        ELSE w1

\* BotAudioStreamer.close._stop for player p
CloseStop(w, p, ctx) ==
    LET w1 == IF PlayerValid(w, p) /\ w.e.media_valid THEN StopTransmit(w, p, ctx) ELSE w
    IN  DeletePlayer(w1, p, ctx)

\* Call.onCallState with state DISCONNECTED, for the call that owns bas:
\* the stop signal, close() of the scheduler, _cleanup_media() and the put
\* of _finalize.  The call is no longer active; whether the port of its
\* audio media is still valid is up to the engine.
StreamingCallDisconnected ==
    /\ calls[1].state = "confirmed"
    /\ ReactorKeepsUp
    /\ \E mv \in BOOLEAN :
          Commit(PutCmd(PutCmd(CloseLocked([World EXCEPT !.e.call_active = FALSE,
                                                         !.e.media_valid = mv]),
                               CallCmd("cleanup_media", 1)),
                        CallCmd("finalize", 1)))
    /\ calls' = [calls EXCEPT ![1].state = "disconnected", ![1].stop_stream = TRUE]
    /\ UNCHANGED <<cqLogVars, now, rx, registry, active, arity_ok, lockVars, poolVars, ioVars>>

RunCloseStop ==
    /\ HeadIs("close_stop")
    /\ Commit(CloseStop(Popped, QGetItem(cmdq).pl, "reactor"))
    /\ UNCHANGED <<cqLogVars, now, rx, callVars, lockVars, poolVars, ioVars>>

\* the reactor runs _do of Call._cleanup_media for the call that owns bas:
\* with _audio_media None the scheduler finds no valid media port
RunCleanupMediaOfStreamer ==
    /\ HeadIs("cleanup_media")
    /\ calls' = [calls EXCEPT ![1].recorder = FALSE, ![1].audio_media = FALSE]
    /\ Commit([Popped EXCEPT !.e.media_valid = FALSE])
    /\ UNCHANGED <<cqLogVars, now, rx, registry, active, arity_ok, lockVars, poolVars, ioVars>>

TeardownInit ==
    /\ cmdq = <<>>
    /\ rpc = "idle"
    /\ nextId = 1
    /\ putLog = <<>>
    /\ execLog = <<>>
    /\ drainNo = 0
    /\ drainSnap = {}
    /\ drainRaised = FALSE
    /\ bas = BasInitial
    /\ eng = EngInitial
    /\ timers = <<>>
    /\ segs = <<>>
    /\ now = 0
    /\ rx = RxInitial
    /\ calls = <<StreamingCall>>
    /\ registry = <<1>>
    /\ active = {}
    /\ arity_ok = TRUE
    /\ lk = LkInitial
    /\ pool = PoolInitial
    /\ tail = TailInitial
    /\ conn = ConnInitial

TeardownNext ==
    \/ \E n \in 1..MaxSegBytes : \E sr \in SegRates : SegFeed(n, sr)
    \/ SegDone
    \/ RunPlayNext
    \/ RunPrep
    \/ RunAdvance
    \/ RunStartPreloaded
    \/ \E pl \in 1..Len(eng.players) : PlayerEof(pl)
    \/ TimerFires
    \/ ClockTick
    \/ StreamingCallDisconnected
    \/ RunCloseStop
    \/ RunCleanupMediaOfStreamer
    \/ RunFinalize

SpecTeardown == TeardownInit /\ [][TeardownNext]_vars

(***************************************************************************)
(* Calls that come and go, with a DISCONNECTED state event that the engine *)
(* may deliver to a Call more than once before its handle is released.     *)
(***************************************************************************)
\* onCallState with DISCONNECTED on a call that has had it already
DisconnectedAgain(c) ==
    /\ calls[c].state = "disconnected"
    /\ ~calls[c].deleted
    /\ ReactorKeepsUp
    /\ OnCallStateDisconnected(c)
    /\ UNCHANGED <<cqLogVars, basVars, registry, active, arity_ok, lockVars, poolVars, ioVars>>

FinalNext ==
    \/ \E caller \in Callers : OnIncomingCall(caller)
    \/ RunAnswer
    \/ \E c \in 1..Len(calls) : Disconnected(c)
    \/ \E c \in 1..Len(calls) : DisconnectedAgain(c)
    \/ RunCleanupMedia
    \/ RunFinalize

SpecFinal == CallInit /\ [][FinalNext]_vars

(***************************************************************************)
(* The engine-event handlers when a step of theirs raises.  step names the *)
(* call that raises ("none": nothing does); the effects of the steps       *)
(* before it stay, the steps after it do not run unless the handler        *)
(* catches the exception.                                                  *)
(***************************************************************************)
MediaSteps == {"none", "getInfo", "createRecorder", "startTransmit", "RealtimeClient"}

DisconnectSteps == {"none", "getInfo", "close"}

\* Call.onCallMediaState for a call with active audio and a recording
\* path: nothing in it is inside a try
OnCallMediaStateRaising(call, step) ==
    LET e == [call EXCEPT !.escaped = TRUE, !.media_events = @ + 1]
        r == [e EXCEPT !.audio_media = TRUE, !.recorder = TRUE, !.recorders = @ + 1]
    IN  IF step = "none" THEN OnCallMediaState(call)
        ELSE IF step = "getInfo" THEN e
        ELSE IF step \in {"createRecorder", "startTransmit"} THEN r
        ELSE [r EXCEPT !.stop_stream = FALSE]

MediaActiveRaising(c, step) ==
    /\ calls[c].state = "confirmed"
    /\ calls[c].recording_path
    /\ MediaEvents(calls) < MaxMediaEvents
    /\ calls' = [calls EXCEPT ![c] = OnCallMediaStateRaising(@, step)]
    /\ UNCHANGED <<cmdq, cqLogVars, basVars, registry, active, arity_ok, lockVars, poolVars, ioVars>>

\* Call.onCallState with DISCONNECTED: getInfo() is outside any try, the
\* scheduler's close() is inside one
DisconnectedRaising(c, step) ==
    /\ calls[c].state \in {"incoming", "confirmed"}
    /\ ReactorKeepsUp
    /\ step = "close" => calls[c].streamers > 0
    /\ IF step = "getInfo"
       THEN /\ calls' = [calls EXCEPT ![c].state = "disconnected", ![c].escaped = TRUE]
            /\ cmdq' = cmdq
       ELSE OnCallStateDisconnected(c)
    /\ UNCHANGED <<cqLogVars, basVars, registry, active, arity_ok, lockVars, poolVars, ioVars>>

FaultNext ==
    \/ \E caller \in Callers : OnIncomingCall(caller)
    \/ RunAnswer
    \/ \E c \in 1..Len(calls) : \E step \in MediaSteps : MediaActiveRaising(c, step)
    \/ \E c \in 1..Len(calls) : \E step \in DisconnectSteps : DisconnectedRaising(c, step)
    \/ \E c \in 1..Len(calls) : \E i \in 1..Len(calls[c].pumps) : PumpConnect(c, i)
    \/ \E c \in 1..Len(calls) : \E i \in 1..Len(calls[c].pumps) : PumpExit(c, i)
    \/ \E c \in 1..Len(calls) : OnBotAudio(c)
    \/ RunCleanupMedia
    \/ RunFinalize

SpecFault == CallInit /\ [][FaultNext]_vars

(***************************************************************************)
(* TailWavReader.iter_chunks (src/audio/tail_wav.py:37-55) on a file that  *)
(* a recorder appends to.  The generator runs on the ingress pump thread;   *)
(* the stop signal is set, and the file may be removed, by other threads.   *)
(***************************************************************************)
\* a read that returns everything up to the end of the file
FileRead_All(size, pos, n) == size - pos

\* self._f.read(n) on the unbuffered file: the number of bytes returned
FileRead(size, pos, n) == IF size - pos >= n THEN n ELSE size - pos

\* the recorder appends n bytes
FileAppend(n) ==
    /\ tail.exists
    /\ tail.size + n <= HeaderBytes + MaxAppended
    /\ tail' = [tail EXCEPT !.size = @ + n]
    /\ UNCHANGED <<cmdq, cqLogVars, basVars, callVars, lockVars, poolVars, conn>>

\* the file is removed from its path; the open file object stays readable
FileRemoved ==
    /\ tail.exists
    /\ tail' = [tail EXCEPT !.exists = FALSE]
    /\ UNCHANGED <<cmdq, cqLogVars, basVars, callVars, lockVars, poolVars, conn>>

\* stop_event.set()
SetStop ==
    /\ ~tail.stop
    /\ tail' = [tail EXCEPT !.stop = TRUE, !.stop_size = tail.size,
                            !.stop_frames = Len(tail.frames)]
    /\ UNCHANGED <<cmdq, cqLogVars, basVars, callVars, lockVars, poolVars, conn>>

\* `while not stop_event.is_set()` and os.path.getsize
IterOuter ==
    /\ tail.pc = "outer"
    /\ tail' = IF tail.stop \/ ~tail.exists
               THEN [tail EXCEPT !.pc = "done"]
               ELSE [tail EXCEPT !.seen = tail.size, !.pc = "inner"]
    /\ UNCHANGED <<cmdq, cqLogVars, basVars, callVars, lockVars, poolVars, conn>>

\* one round of `while size - self._offset >= frame_bytes`: read, advance
\* the offset, yield
IterInner ==
    /\ tail.pc = "inner"
    /\ LET got == FileRead(tail.size, tail.fpos, frame_bytes)
       IN  tail' = IF tail.seen - tail.offset >= frame_bytes /\ got > 0
                   THEN [tail EXCEPT !.offset = @ + got,
                                     !.fpos = @ + got,
                                     !.frames = Append(@, [from |-> tail.fpos, len |-> got])]
                   ELSE [tail EXCEPT !.pc = "sleep"]
    /\ UNCHANGED <<cmdq, cqLogVars, basVars, callVars, lockVars, poolVars, conn>>

\* time.sleep(poll_interval)
IterSleep ==
    /\ tail.pc = "sleep"
    /\ tail' = [tail EXCEPT !.pc = "outer"]
    /\ UNCHANGED <<cmdq, cqLogVars, basVars, callVars, lockVars, poolVars, conn>>

TailNext ==
    \/ \E n \in 1..MaxAppended : FileAppend(n)
    \/ FileRemoved
    \/ SetStop
    \/ IterOuter
    \/ IterInner
    \/ IterSleep

SpecTail == Init /\ [][TailNext]_vars

\* the pump thread keeps running its generator
SpecTailLive == SpecTail /\ WF_vars(IterOuter) /\ WF_vars(IterInner) /\ WF_vars(IterSleep)

(***************************************************************************)
(* The bridge of one call: Call._start_streaming_thread, the _stream_loop  *)
(* threads and RealtimeClient.connect / send / close                       *)
(* (src/sip/call.py:99-141, src/realtime/session.py:50-112, 159-232).      *)
(* A write to the connection is two steps, its beginning under the send    *)
(* lock and its end, so that writes of different threads can overlap if    *)
(* the lock lets them.                                                     *)
(***************************************************************************)
\* the receive thread, as a holder of the send lock
RxThread == 0 - 1

\* RealtimeClient.__init__
RtInitial ==
    [ ws     |-> "none",        \* _ws: "none" (None), "connecting" (WebSocketApp made, not open), "open"
      lock   |-> 0,             \* _send_lock: 0 (free) or the thread that holds it
      inside |-> {},            \* the threads inside _ws.send or _ws.close
      sent   |-> <<>> ]         \* history: the events written, [type, by, k]

\* _send_lock can be acquired
LockFree(rt) == rt.lock = 0

\* Call._start_streaming_thread on a media-active event: RealtimeClient(...)
\* with on_speech_started and on_assistant_stream_start among its keyword
\* arguments, then the thread is started.  A RealtimeClient whose __init__
\* has no such parameters raises TypeError there: _rt keeps its value and
\* no thread is started.
BridgeMediaActive ==
    /\ Len(conn.rts) + conn.ctor_raised < MaxMediaEvents
    /\ ~conn.stop
    /\ IF conn.kwargs_ok
       THEN conn' = [conn EXCEPT !.rts = Append(@, RtInitial),
                                 !.cur = Len(conn.rts) + 1,
                                 !.pumps = Append(@, [pc |-> "connect", r |-> 0, yielded |-> 0,
                                                      timed_out |-> FALSE,
                                                      connected |-> 0, closed |-> 0,
                                                      tail_closed |-> 0])]
       ELSE conn' = [conn EXCEPT !.ctor_raised = @ + 1]
    /\ UNCHANGED <<cmdq, cqLogVars, basVars, callVars, lockVars, poolVars, tail>>

\* onCallState with DISCONNECTED: _stop_stream.set()
BridgeStop ==
    /\ conn.rts # <<>>
    /\ ~conn.stop
    /\ conn' = [conn EXCEPT !.stop = TRUE]
    /\ UNCHANGED <<cmdq, cqLogVars, basVars, callVars, lockVars, poolVars, tail>>

\* self._rt.connect(): the WebSocketApp is made and _open_evt.wait(10)
\* returns, with the connection open or not; not open, connect raises; open,
\* _start_flush_thread runs, which raises if the attributes it reads were
\* never set
BridgeConnect(i, opens) ==
    LET r == conn.cur
    IN  /\ conn.pumps[i].pc = "connect"
        /\ conn' = [conn EXCEPT
                      !.rts[r].ws = IF opens THEN "open" ELSE "connecting",
                      !.pumps[i].timed_out = ~opens,
                      !.pumps[i].connected = r,
                      !.pumps[i].pc = IF opens /\ conn.has_flusher THEN "configure"
                                      ELSE "finally"]
        /\ UNCHANGED <<cmdq, cqLogVars, basVars, callVars, lockVars, poolVars, tail>>

RECURSIVE Yielded(_)
Yielded(ps) == IF ps = <<>> THEN 0 ELSE Head(ps).yielded + Yielded(Tail(ps))

\* the next chunk of `for chunk in self._tail.iter_chunks(...)`, or its end
BridgeYield(i) ==
    /\ conn.pumps[i].pc = "loop"
    /\ IF conn.stop
       THEN conn' = [conn EXCEPT !.pumps[i].pc = "finally"]
       ELSE /\ Yielded(conn.pumps) < MaxFrames
            /\ conn' = [conn EXCEPT !.pumps[i].yielded = @ + 1, !.pumps[i].pc = "frame"]
    /\ UNCHANGED <<cmdq, cqLogVars, basVars, callVars, lockVars, poolVars, tail>>

\* RealtimeClient.send on self._rt, entered by update_session (pc
\* "configure") or send_audio_chunk (pc "frame"): nothing happens if _ws is
\* None; otherwise the lock is taken and _ws.send begins
BridgeSendBegin(i) ==
    LET r == conn.cur
        pc == conn.pumps[i].pc
    IN  /\ pc \in {"configure", "frame"}
        /\ IF conn.rts[r].ws = "none"
           THEN conn' = [conn EXCEPT !.pumps[i].pc = "loop"]
           ELSE /\ LockFree(conn.rts[r])
                /\ conn' = [conn EXCEPT !.rts[r].lock = i,
                                        !.rts[r].inside = @ \cup {i},
                                        !.pumps[i].r = r,
                                        !.pumps[i].pc = pc \o "_in"]
        /\ UNCHANGED <<cmdq, cqLogVars, basVars, callVars, lockVars, poolVars, tail>>

\* _ws.send returns and the lock is released; on a connection that is not
\* open it raises, which ends the loop of _stream_loop
BridgeSendEnd(i) ==
    LET r == conn.pumps[i].r
        pc == conn.pumps[i].pc
        ev == IF pc = "configure_in"
              THEN [type |-> "session.update", by |-> i, k |-> 0]
              ELSE [type |-> "append", by |-> i, k |-> conn.pumps[i].yielded]
    IN  /\ pc \in {"configure_in", "frame_in"}
        /\ conn' = [conn EXCEPT
                      !.rts[r].lock = 0,
                      !.rts[r].inside = @ \ {i},
                      !.rts[r].sent = IF conn.rts[r].ws = "open" THEN Append(@, ev) ELSE @,
                      !.pumps[i].pc = IF conn.rts[r].ws = "open" THEN "loop" ELSE "finally"]
        /\ UNCHANGED <<cmdq, cqLogVars, basVars, callVars, lockVars, poolVars, tail>>

\* the finally of _stream_loop: self._rt.close(), which takes the lock
\* around _ws.close() if _ws is set
BridgeCloseBegin(i) ==
    LET r == conn.cur
    IN  /\ conn.pumps[i].pc = "finally"
        /\ IF conn.rts[r].ws = "none"
           THEN conn' = [conn EXCEPT !.pumps[i].pc = "done", !.pumps[i].closed = r]
           ELSE /\ LockFree(conn.rts[r])
                /\ conn' = [conn EXCEPT !.rts[r].lock = i,
                                        !.rts[r].inside = @ \cup {i},
                                        !.pumps[i].r = r,
                                        !.pumps[i].closed = r,
                                        !.pumps[i].pc = "close_in"]
        /\ UNCHANGED <<cmdq, cqLogVars, basVars, callVars, lockVars, poolVars, tail>>

\* _ws.close() returns, the lock is released and _ws is set to None
BridgeCloseEnd(i) ==
    LET r == conn.pumps[i].r
    IN  /\ conn.pumps[i].pc = "close_in"
        /\ conn' = [conn EXCEPT
                      !.rts[r].lock = 0,
                      !.rts[r].inside = @ \ {i},
                      !.rts[r].sent = Append(@, [type |-> "close", by |-> i, k |-> 0]),
                      !.rts[r].ws = "none",
                      !.pumps[i].pc = "done"]
        /\ UNCHANGED <<cmdq, cqLogVars, basVars, callVars, lockVars, poolVars, tail>>

\* the receive thread of an open connection sets out to send a truncate
\* request through self._rt (call.py:198); send_truncate is taken to go
\* through RealtimeClient.send like every other event
RxTruncateBegin ==
    LET r == conn.cur
    IN  /\ conn.rx.pc = "idle"
        /\ conn.truncs < MaxTruncates
        /\ \E q \in 1..Len(conn.rts) : conn.rts[q].ws = "open"
        /\ IF conn.rts[r].ws = "none"
           THEN conn' = [conn EXCEPT !.truncs = @ + 1]
           ELSE /\ LockFree(conn.rts[r])
                /\ conn' = [conn EXCEPT !.truncs = @ + 1,
                                        !.rts[r].lock = RxThread,
                                        !.rts[r].inside = @ \cup {RxThread},
                                        !.rx = [pc |-> "in", r |-> r]]
        /\ UNCHANGED <<cmdq, cqLogVars, basVars, callVars, lockVars, poolVars, tail>>

RxTruncateEnd ==
    LET r == conn.rx.r
    IN  /\ conn.rx.pc = "in"
        /\ conn' = [conn EXCEPT
                      !.rts[r].lock = 0,
                      !.rts[r].inside = @ \ {RxThread},
                      !.rts[r].sent = IF conn.rts[r].ws = "open"
                                      THEN Append(@, [type |-> "truncate", by |-> RxThread,
                                                      k |-> conn.truncs])
                                      ELSE @,
                      !.rx = [pc |-> "idle", r |-> 0]]
        /\ UNCHANGED <<cmdq, cqLogVars, basVars, callVars, lockVars, poolVars, tail>>

\* RealtimeClient is either the class of session.py, whose __init__ takes
\* no on_speech_started / on_assistant_stream_start and sets none of the
\* attributes _start_flush_thread reads, or one that Call can construct, or
\* one that Call can construct and that can start its flusher
BridgeInit ==
    /\ cmdq = <<>>
    /\ rpc = "idle"
    /\ nextId = 1
    /\ putLog = <<>>
    /\ execLog = <<>>
    /\ drainNo = 0
    /\ drainSnap = {}
    /\ drainRaised = FALSE
    /\ bas = BasInitial
    /\ eng = EngInitial
    /\ timers = <<>>
    /\ segs = <<>>
    /\ now = 0
    /\ rx = RxInitial
    /\ calls = <<>>
    /\ registry = <<>>
    /\ active = {}
    /\ arity_ok = TRUE
    /\ lk = LkInitial
    /\ pool = PoolInitial
    /\ tail = TailInitial
    /\ \E k \in BOOLEAN : \E hf \in BOOLEAN :
          /\ hf => k
          /\ conn = [ConnInitial EXCEPT !.kwargs_ok = k, !.has_flusher = hf]

BridgeNext ==
    \/ BridgeMediaActive
    \/ BridgeStop
    \/ \E i \in 1..Len(conn.pumps) : \E opens \in BOOLEAN : BridgeConnect(i, opens)
    \/ \E i \in 1..Len(conn.pumps) : BridgeYield(i)
    \/ \E i \in 1..Len(conn.pumps) : BridgeSendBegin(i)
    \/ \E i \in 1..Len(conn.pumps) : BridgeSendEnd(i)
    \/ \E i \in 1..Len(conn.pumps) : BridgeCloseBegin(i)
    \/ \E i \in 1..Len(conn.pumps) : BridgeCloseEnd(i)
    \/ RxTruncateBegin
    \/ RxTruncateEnd

SpecBridge == BridgeInit /\ [][BridgeNext]_vars

(***************************************************************************)
(* One pump thread from the frame loop of _stream_loop to its end          *)
(* (src/sip/call.py:121-141) over the tail reader of iter_chunks: the      *)
(* bridge is connected and configured, the reader is open on a file that   *)
(* holds its header.  The stop signal handed to iter_chunks is             *)
(* Call._stop_stream, which onCallState sets on DISCONNECTED.              *)
(***************************************************************************)
\* the pump after connect(), update_session() and TailWavReader(...)
PumpInitial ==
    [ConnInitial EXCEPT
        !.cur = 1,
        !.rts = <<[RtInitial EXCEPT !.ws = "open",
                                    !.sent = <<[type |-> "session.update", by |-> 1, k |-> 0]>>]>>,
        !.pumps = <<[pc |-> "loop", r |-> 1, yielded |-> 0, timed_out |-> FALSE,
                     connected |-> 1, closed |-> 0, tail_closed |-> 0]>>]

\* the generator has yielded a chunk that the body of the for loop has not
\* yet handed to send_audio_chunk
ChunkPending == conn.pumps[1].yielded < Len(tail.frames)

\* the body of the for loop: self._rt.send_audio_chunk(chunk)
PumpSendChunk ==
    /\ conn.pumps[1].pc = "loop"
    /\ ChunkPending
    /\ conn' = [conn EXCEPT
                  !.pumps[1].yielded = @ + 1,
                  !.rts[1].sent = Append(@, [type |-> "append", by |-> 1,
                                             k |-> conn.pumps[1].yielded + 1])]
    /\ UNCHANGED <<cmdq, cqLogVars, basVars, callVars, lockVars, poolVars, tail>>

\* the for loop resumes the generator once its body has run
PumpIterOuter == ~ChunkPending /\ IterOuter

PumpIterInner == ~ChunkPending /\ IterInner

PumpIterSleep == ~ChunkPending /\ IterSleep

\* the finally of _stream_loop, first part: self._rt.close()
PumpCloseRt ==
    /\ conn.pumps[1].pc = "loop"
    /\ tail.pc = "done"
    /\ ~ChunkPending
    /\ conn' = [conn EXCEPT
                  !.pumps[1].pc = "close_tail",
                  !.pumps[1].closed = conn.cur,
                  !.rts[conn.cur].ws = "none",
                  !.rts[conn.cur].sent = IF conn.rts[conn.cur].ws # "none"
                                         THEN Append(@, [type |-> "close", by |-> 1, k |-> 0])
                                         ELSE @]
    /\ UNCHANGED <<cmdq, cqLogVars, basVars, callVars, lockVars, poolVars, tail>>

\* the finally of _stream_loop, second part: self._tail.close() and
\* self._tail = None
PumpCloseTail ==
    /\ conn.pumps[1].pc = "close_tail"
    /\ conn' = [conn EXCEPT !.pumps[1].pc = "done", !.pumps[1].tail_closed = @ + 1]
    /\ UNCHANGED <<cmdq, cqLogVars, basVars, callVars, lockVars, poolVars, tail>>

PumpInit ==
    /\ cmdq = <<>>
    /\ rpc = "idle"
    /\ nextId = 1
    /\ putLog = <<>>
    /\ execLog = <<>>
    /\ drainNo = 0
    /\ drainSnap = {}
    /\ drainRaised = FALSE
    /\ bas = BasInitial
    /\ eng = EngInitial
    /\ timers = <<>>
    /\ segs = <<>>
    /\ now = 0
    /\ rx = RxInitial
    /\ calls = <<>>
    /\ registry = <<>>
    /\ active = {}
    /\ arity_ok = TRUE
    /\ lk = LkInitial
    /\ pool = PoolInitial
    /\ tail = TailInitial
    /\ conn = PumpInitial

PumpNext ==
    \/ \E n \in 1..MaxAppended : FileAppend(n)
    \/ SetStop
    \/ PumpIterOuter
    \/ PumpIterInner
    \/ PumpIterSleep
    \/ PumpSendChunk
    \/ PumpCloseRt
    \/ PumpCloseTail

SpecPump == PumpInit /\ [][PumpNext]_vars

\* the pump thread keeps running
SpecPumpLive ==
    /\ SpecPump
    /\ WF_vars(PumpIterOuter) /\ WF_vars(PumpIterInner) /\ WF_vars(PumpIterSleep)
    /\ WF_vars(PumpSendChunk) /\ WF_vars(PumpCloseRt) /\ WF_vars(PumpCloseTail)

(***************************************************************************)
(* The message handler of the receive thread: on_message of                *)
(* RealtimeClient.connect (src/realtime/session.py:62-90), with            *)
(* Call._on_bot_audio and Call._on_bot_audio_done behind on_audio and      *)
(* on_audio_done.                                                          *)
(***************************************************************************)
\* An inbound message.  kind is "not_json" (json.loads raises), "not_object"
\* (JSON that is a list, a string, a number or null) or the type of a JSON
\* object: "delta", "done", "text", "error", "other".  A delta carries a
\* payload of d characters of the base64 alphabet, p '=' characters after
\* them and j characters outside the alphabet among them, and a rate (0:
\* none); error is 0 (no "error" member), 1 (an object) or 2 (a string).
Msg(kind, d, p, j, rate, error) ==
    [kind |-> kind, d |-> d, p |-> p, j |-> j, rate |-> rate, error |-> error]

Messages ==
    {Msg(k, 0, 0, 0, 0, 0) : k \in {"not_json", "not_object", "done", "text", "other"}}
    \cup {Msg("error", 0, 0, 0, 0, e) : e \in 0..2}
    \cup {Msg("delta", d, p, j, r, 0) :
              d \in 0..(MaxBytes + 1), p \in 0..2, j \in 0..1, r \in {0} \cup SampleRates}

\* base64.b64decode(b64) with validation off, as on_message calls it:
\* characters outside the alphabet are discarded, and binascii.Error is
\* raised when the characters left are not padded to a multiple of four
B64Raises(d, p) ==
    \/ d % 4 = 1
    \/ d % 4 = 2 /\ p < 2
    \/ d % 4 = 3 /\ p < 1

\* the number of bytes it returns: six bits for each alphabet character
B64Bytes(d) == (d * 6) \div 8

\* the exception on_message lets out, if any: data.get on what is not a
\* dict, b64decode on a non-empty payload, .get on an "error" member that
\* is not a dict
Raises(m) ==
    \/ m.kind = "not_object"
    \/ m.kind = "delta" /\ m.d + m.p + m.j > 0 /\ B64Raises(m.d, m.p)
    \/ m.kind = "error" /\ m.error = 2

\* the chunk handed to on_audio: its length, 0 when on_audio is not called
Chunk(m) ==
    IF m.kind = "delta" /\ m.d + m.p + m.j > 0 /\ ~B64Raises(m.d, m.p)
    THEN B64Bytes(m.d) ELSE 0

\* on_message(ws, message).  What escapes it is caught by the WebSocketApp
\* that called it, which goes on to the next message.
OnMessage(m) ==
    /\ conn.msgs < MaxMessages
    /\ ReactorKeepsUp
    /\ rx.fed + Chunk(m) <= MaxBytes
    /\ IF Chunk(m) > 0
       THEN Commit(FeedLocked(World, DeltaBytes(Chunk(m)), conn.current_sr, TRUE, "rx"))
       ELSE IF m.kind = "done" /\ rx.fed > 0
       THEN Commit(OnDoneLocked(World, TRUE, "rx"))
       ELSE UNCHANGED <<bas, cmdq, eng, timers, segs>>
    /\ rx' = [rx EXCEPT !.fed = @ + Chunk(m)]
    /\ conn' = [conn EXCEPT !.msgs = @ + 1,
                            !.msg = m,
                            !.escaped = IF Raises(m) THEN @ + 1 ELSE @,
                            !.handled = IF Raises(m) THEN @ ELSE @ + 1,
                            !.current_sr = IF m.kind = "delta" /\ ~Raises(m) /\ m.rate # 0
                                           THEN m.rate ELSE @]
    /\ UNCHANGED <<cqLogVars, now, callVars, lockVars, poolVars, tail>>

MsgNext ==
    \/ \E m \in Messages : OnMessage(m)
    \/ RunPlayNext
    \/ RunPrep
    \/ RunAdvance
    \/ RunStartPreloaded
    \/ \E pl \in 1..Len(eng.players) : PlayerEof(pl)
    \/ TimerFires
    \/ ClockTick

SpecMsg == Init /\ [][MsgNext]_vars

(***************************************************************************)
(* The scheduler lock and the CommandQueue, thread by thread.  A method of *)
(* BotAudioStreamer, a timer callback or a command is the sequence of its  *)
(* lock and queue operations, in program order; what it decides from the   *)
(* scheduler's data (whether there is a segment to start, a player to      *)
(* stop, a preloaded player) is a free choice.                             *)
(***************************************************************************)
MaxLockCalls == 2

MaxLockPuts == 2

\* "with self._lock:" entered and left; cmdq.put(f); threading.Timer(...).start()
AcquireOp == [op |-> "acquire", kind |-> "none"]

ReleaseOp == [op |-> "release", kind |-> "none"]

PutOp(kind) == [op |-> "put", kind |-> kind]

TimerOp == [op |-> "timer", kind |-> "none"]

Opt(b, ops) == IF b THEN ops ELSE <<>>

\* feed(): flush, then _maybe_start_locked, whose _start_next_locked puts
\* _play_next, all inside the lock
FeedOps(starts) == <<AcquireOp>> \o Opt(starts, <<PutOp("play_next")>>) \o <<ReleaseOp>>

\* on_done()
OnDoneOps(starts) == <<AcquireOp>> \o Opt(starts, <<PutOp("play_next")>>) \o <<ReleaseOp>>

\* close(): puts _stop inside the lock when there is an active player
CloseOps(has_player) ==
    <<AcquireOp>> \o Opt(has_player, <<PutOp("close_stop")>>) \o <<ReleaseOp>>

\* interrupt_and_get_progress_ms(): puts _stop_active, and _delete_preloaded
\* when there is a preloaded player, inside the lock
InterruptOps(has_pre) ==
    <<AcquireOp, PutOp("stop_active")>> \o Opt(has_pre, <<PutOp("delete_preloaded")>>)
        \o <<ReleaseOp>>

\* get_played_ms(), start_new_response(), current_item_id(), is_playing()
QueryOps == <<AcquireOp, ReleaseOp>>

\* _try_preload_next(): looks at the queue inside the lock, puts _prep
\* after leaving it
TryPreloadOps(preload) == <<AcquireOp, ReleaseOp>> \o Opt(preload, <<PutOp("prep")>>)

\* the command _play_next
PlayNextOps(usable, preload) ==
    Opt(usable, <<AcquireOp, ReleaseOp>> \o TryPreloadOps(preload) \o <<TimerOp>>)

\* the command _prep
PrepOps(usable) == Opt(usable, <<AcquireOp, ReleaseOp>>)

\* an _advance whose _start_next_locked takes the lock itself
AdvanceOps_Reacquire(chain) ==
    <<AcquireOp>> \o Opt(chain, <<AcquireOp, PutOp("play_next"), ReleaseOp>>) \o <<ReleaseOp>>

\* the command _advance: _start_next_locked puts _play_next inside the lock
AdvanceOps(chain) == <<AcquireOp>> \o Opt(chain, <<PutOp("play_next")>>) \o <<ReleaseOp>>

\* the timer callback _tick
TickOps(ready, retry) ==
    <<AcquireOp, ReleaseOp>>
        \o (IF ready THEN <<PutOp("start_preloaded")>>
            ELSE <<AcquireOp, ReleaseOp>> \o Opt(retry, <<TimerOp>>))

\* the command _start_preloaded
StartPreloadedOps(usable, had_next, preload) ==
    Opt(usable, <<AcquireOp, ReleaseOp>> \o TryPreloadOps(preload) \o Opt(had_next, <<TimerOp>>))

\* onEof2: puts _advance
EofOps == <<PutOp("advance")>>

\* the ways a command of the given kind can go
CommandOps(kind) ==
    IF kind = "play_next" THEN {PlayNextOps(u, p) : u \in BOOLEAN, p \in BOOLEAN}
    ELSE IF kind = "prep" THEN {PrepOps(u) : u \in BOOLEAN}
    ELSE IF kind = "advance" THEN {AdvanceOps(c) : c \in BOOLEAN}
    ELSE IF kind = "start_preloaded"
         THEN UNION {{StartPreloadedOps(u, h, p) : p \in BOOLEAN} : u \in BOOLEAN, h \in BOOLEAN}
    ELSE {<<>>}          \* _stop_active, _delete_preloaded, _stop: engine operations only

\* the calls the receive thread makes
RxOps ==
    {FeedOps(b) : b \in BOOLEAN} \cup {OnDoneOps(b) : b \in BOOLEAN}
        \cup {InterruptOps(b) : b \in BOOLEAN} \cup {QueryOps}

\* the callbacks the engine makes on the reactor between commands
CallbackOps == {CloseOps(b) : b \in BOOLEAN} \cup {EofOps}

TickOpsAll == UNION {{TickOps(r, t) : t \in BOOLEAN} : r \in BOOLEAN}

RECURSIVE PutsIn(_)
PutsIn(ops) ==
    IF ops = <<>> THEN 0
    ELSE (IF Head(ops).op = "put" THEN 1 ELSE 0) + PutsIn(Tail(ops))

RECURSIVE SumPuts(_)
SumPuts(T) ==
    IF T = {} THEN 0
    ELSE LET t == CHOOSE x \in T : TRUE IN PutsIn(lk.pc[t]) + SumPuts(T \ {t})

\* the explored runs make at most MaxLockPuts puts: a call that puts is
\* begun only while that leaves room
Affordable(ops) == lk.puts + SumPuts(Threads) + PutsIn(ops) <= MaxLockPuts

NextOp(t) == Head(lk.pc[t])

At(t, op) == lk.pc[t] # <<>> /\ NextOp(t).op = op

LkUnchanged == UNCHANGED <<cqLogVars, basVars, callVars, ioVars, poolVars>>

\* the receive thread enters a method of the scheduler
LkRxCall ==
    /\ lk.pc["rx"] = <<>>
    /\ lk.calls < MaxLockCalls
    /\ \E ops \in RxOps :
          /\ Affordable(ops)
          /\ lk' = [lk EXCEPT !.pc["rx"] = ops, !.calls = @ + 1]
    /\ UNCHANGED cmdq
    /\ LkUnchanged

\* between two commands the engine calls back on the reactor:
\* onCallState, which closes the scheduler, or onEof2
LkCallback ==
    /\ lk.pc["reactor"] = <<>>
    /\ lk.calls < MaxLockCalls
    /\ \E ops \in CallbackOps :
          /\ Affordable(ops)
          /\ lk' = [lk EXCEPT !.pc["reactor"] = ops, !.calls = @ + 1]
    /\ UNCHANGED cmdq
    /\ LkUnchanged

\* a timer fires: its thread runs _tick
LkTimerFires(t) ==
    /\ t \in TimerThreads
    /\ lk.pc[t] = <<>>
    /\ lk.timers > 0
    /\ \E ops \in TickOpsAll :
          /\ Affordable(ops)
          /\ lk' = [lk EXCEPT !.pc[t] = ops, !.timers = @ - 1]
    /\ UNCHANGED cmdq
    /\ LkUnchanged

\* execute_pending: get_nowait() returns a command and the reactor calls it
LkGet ==
    /\ lk.pc["reactor"] = <<>>
    /\ cmdq # <<>>
    /\ \E ops \in CommandOps(QGetItem(cmdq).kind) :
          /\ Affordable(ops)
          /\ lk' = [lk EXCEPT !.pc["reactor"] = ops, !.executed = @ + 1]
    /\ cmdq' = QGetRest(cmdq)
    /\ LkUnchanged

\* threading.Lock.acquire(): blocks while the lock is held, by whomever
LkAcquire(t) ==
    /\ At(t, "acquire")
    /\ lk.holder = "free"
    /\ lk' = [lk EXCEPT !.holder = t, !.pc[t] = Tail(@)]
    /\ UNCHANGED cmdq
    /\ LkUnchanged

\* threading.Lock.release()
LkRelease(t) ==
    /\ At(t, "release")
    /\ lk' = [lk EXCEPT !.holder = "free", !.pc[t] = Tail(@)]
    /\ UNCHANGED cmdq
    /\ LkUnchanged

\* CommandQueue.put on the unbounded queue.Queue: it never waits
LkPut(t) ==
    /\ At(t, "put")
    /\ cmdq' = QPut(cmdq, BasCmd(NextOp(t).kind, 0, 0, None))
    /\ lk' = [lk EXCEPT !.pc[t] = Tail(@), !.puts = @ + 1]
    /\ LkUnchanged

\* threading.Timer(delay, _tick).start()
LkTimerStart(t) ==
    /\ At(t, "timer")
    /\ lk' = [lk EXCEPT !.pc[t] = Tail(@), !.timers = @ + 1]
    /\ UNCHANGED cmdq
    /\ LkUnchanged

LockNext ==
    \/ LkRxCall
    \/ LkCallback
    \/ \E t \in TimerThreads : LkTimerFires(t)
    \/ LkGet
    \/ \E t \in Threads : LkAcquire(t)
    \/ \E t \in Threads : LkRelease(t)
    \/ \E t \in Threads : LkPut(t)
    \/ \E t \in Threads : LkTimerStart(t)

SpecLock == Init /\ [][LockNext]_vars

\* every thread that can go on does, the lock is handed out fairly, and the
\* reactor keeps pumping
SpecLockLive ==
    /\ SpecLock
    /\ \A t \in Threads : SF_vars(LkAcquire(t))
    /\ \A t \in Threads : WF_vars(LkRelease(t))
    /\ \A t \in Threads : WF_vars(LkPut(t))
    /\ \A t \in Threads : WF_vars(LkTimerStart(t))
    /\ WF_vars(LkGet)

(***************************************************************************)
(* The busy guard of the processing pipeline: submit(), the runs of its    *)
(* ThreadPoolExecutor, their done callbacks, and shutdown().               *)
(***************************************************************************)
MaxSubmits == 3

\* the worker threads of the executor
max_workers == 1

\* the caller identities submit() is called with; 0 is the empty string
PipePhones == {0, 1, 2}

Future(phone) == [phone |-> phone, st |-> "pending", called_back |-> FALSE]

FutureIds == 1..Len(pool.futures)

Running == {i \in FutureIds : pool.futures[i].st = "running"}

\* a future that is done: Future.done()
Done(f) == f.st \in {"finished", "failed", "cancelled"}

\* submit(phone, wav_path): nothing without a phone or a path, nothing for
\* an identity that is active; else the identity is added and the run is
\* handed to the executor, which raises RuntimeError once it has been shut
\* down
PipeSubmit(phone, has_path) ==
    /\ pool.submits < MaxSubmits
    /\ IF phone = 0 \/ ~has_path
       THEN /\ pool' = [pool EXCEPT !.submits = @ + 1]
            /\ UNCHANGED active
       ELSE IF IsProcessing(active, phone)
       THEN /\ pool' = [pool EXCEPT !.submits = @ + 1, !.rejected = @ + 1]
            /\ UNCHANGED active
       ELSE /\ active' = active \cup {phone}
            /\ pool' = IF pool.shutdown
                       THEN [pool EXCEPT !.submits = @ + 1, !.raised = @ + 1]
                       ELSE [pool EXCEPT !.submits = @ + 1,
                                         !.futures = Append(@, Future(phone))]
    /\ UNCHANGED <<cmdq, cqLogVars, basVars, calls, registry, arity_ok, lockVars, ioVars>>

\* a worker thread takes a pending run
PipeStart(i) ==
    /\ i \in FutureIds
    /\ pool.futures[i].st = "pending"
    /\ Cardinality(Running) < max_workers
    /\ pool' = [pool EXCEPT !.futures[i].st = "running"]
    /\ UNCHANGED <<cmdq, cqLogVars, basVars, callVars, lockVars, ioVars>>

\* _run_pipeline returns or raises
PipeFinish(i, ok) ==
    /\ i \in FutureIds
    /\ pool.futures[i].st = "running"
    /\ pool' = [pool EXCEPT !.futures[i].st = IF ok THEN "finished" ELSE "failed"]
    /\ UNCHANGED <<cmdq, cqLogVars, basVars, callVars, lockVars, ioVars>>

\* _on_done(phone, future), the done callback: whatever future.result()
\* does, the finally clause discards the identity
PipeOnDone(i) ==
    /\ i \in FutureIds
    /\ Done(pool.futures[i])
    /\ ~pool.futures[i].called_back
    /\ active' = active \ {pool.futures[i].phone}
    /\ pool' = [pool EXCEPT !.futures[i].called_back = TRUE]
    /\ UNCHANGED <<cmdq, cqLogVars, basVars, calls, registry, arity_ok, lockVars, ioVars>>

\* shutdown(): executor.shutdown(wait=False, cancel_futures=True) cancels
\* the runs no worker has taken and lets the running ones go on
PipeShutdown ==
    /\ ~pool.shutdown
    /\ pool' = [pool EXCEPT !.shutdown = TRUE,
                            !.futures = [i \in FutureIds |->
                                IF pool.futures[i].st = "pending"
                                THEN [pool.futures[i] EXCEPT !.st = "cancelled"]
                                ELSE pool.futures[i]]]
    /\ UNCHANGED <<cmdq, cqLogVars, basVars, callVars, lockVars, ioVars>>

PipeNext ==
    \/ \E phone \in PipePhones : \E has_path \in BOOLEAN : PipeSubmit(phone, has_path)
    \/ \E i \in FutureIds : PipeStart(i)
    \/ \E i \in FutureIds : \E ok \in BOOLEAN : PipeFinish(i, ok)
    \/ \E i \in FutureIds : PipeOnDone(i)
    \/ PipeShutdown

SpecPipe == Init /\ [][PipeNext]_vars

\* the workers take what is pending, runs end, callbacks are called
SpecPipeLive ==
    /\ SpecPipe
    /\ WF_vars(\E i \in FutureIds : PipeStart(i))
    /\ WF_vars(\E i \in FutureIds : \E ok \in BOOLEAN : PipeFinish(i, ok))
    /\ WF_vars(\E i \in FutureIds : PipeOnDone(i))

(***************************************************************************)
(* Claims about the CommandQueue, checked under SpecCQ.                    *)
(***************************************************************************)
ExecIds == [i \in 1..Len(execLog) |-> execLog[i].id]
PutIds == [i \in 1..Len(putLog) |-> putLog[i].id]

\* C1: commands are executed in exactly the order in which they were
\* enqueued, each at most once: the sequence of executed commands is a
\* prefix of the sequence of put() calls, for every interleaving of puts
\* and drains.
C1_FifoOrder ==
    /\ Len(execLog) <= Len(putLog)
    /\ \A i \in 1..Len(execLog) : ExecIds[i] = PutIds[i]
    /\ \A i, j \in 1..Len(execLog) : i # j => ExecIds[i] # ExecIds[j]

\* C1 witness: three commands executed, one of them put while a drain ran
C1_Witness ==
    /\ Len(execLog) >= 3
    /\ \E i \in 1..Len(putLog) : putLog[i].during > 0
    /\ \E i, j \in 1..Len(execLog) : execLog[i].drain # execLog[j].drain

ExecutedIn(d) == {execLog[i].id : i \in {j \in 1..Len(execLog) : execLog[j].drain = d}}

\* C2: within one execute_pending() drain, every command that was queued
\* when the drain began is executed and removed by that drain, whether or
\* not an earlier one raised.
C2_RaiseDoesNotStopDrain ==
    (rpc = "idle" /\ drainNo > 0) => drainSnap \subseteq ExecutedIn(drainNo)

\* C3: a command enqueued while execute_pending() is running is not
\* executed by that drain call, only by a later one.
C3_EnqueuedDuringDrainRunsLater ==
    \A i \in 1..Len(execLog) :
        \A j \in 1..Len(putLog) :
            (putLog[j].id = execLog[i].id /\ putLog[j].during > 0)
                => execLog[i].drain > putLog[j].during

(***************************************************************************)
(* Claims about the BotAudioStreamer and the speech-started handler,       *)
(* checked under SpecBAS (C6 under SpecSeg).                               *)
(***************************************************************************)
\* C4: every mutating operation on the telephony engine (createPlayer,
\* startTransmit, stopTransmit, player delete) is performed by the reactor
\* thread, inside a command drained from the CommandQueue; the receive
\* thread and the timer threads never perform one.
C4_EngineOpsOnReactorOnly == eng.ctxs \subseteq {"reactor"}

\* C4 witness: players were created, started, stopped and deleted, one of
\* them by an interruption's command
C4_Witness ==
    /\ eng.ctxs = {"reactor"}
    /\ Len(eng.audible) >= 2
    /\ \E i \in 1..Len(eng.players) : eng.players[i].st = "deleted"
    /\ rx.truncs # <<>>

\* C5: within one epoch the segments are made audible (startTransmit on
\* their player) in the order of their creation, each once: a segment made
\* audible later was created later.
C5_AudibleInCreationOrder ==
    \A i, j \in 1..Len(eng.audible) :
        (i < j /\ eng.audible[i].epoch = eng.audible[j].epoch)
            => eng.audible[i].seg < eng.audible[j].seg

RECURSIVE Payload(_)
Payload(g) == IF g = <<>> THEN <<>> ELSE Head(g).data \o Payload(Tail(g))

\* C6: for feed() calls at one sample rate followed by on_done(), with no
\* interruption and no write failure, the payloads of the segments appended
\* to the queue, in queue order, followed by the bytes still buffered, are
\* the bytes fed, in order, none dropped or duplicated; after on_done()
\* nothing is left buffered; every segment but possibly the last one has
\* exactly segment_bytes bytes, and the last one has no more.
C6_SegmentsReconstructStream ==
    /\ Payload(segs) \o bas.buf = [i \in 1..rx.fed |-> i]
    /\ bas.end_of_response => bas.buf = <<>>
    /\ \A i \in 1..Len(segs) :
          /\ segs[i].written
          /\ Len(segs[i].data) \in 1..bas.segment_bytes
          /\ (i < Len(segs) \/ ~bas.end_of_response)
                => Len(segs[i].data) = bas.segment_bytes
    /\ \A i \in 1..Len(bas.queue) - 1 : bas.queue[i].seg < bas.queue[i + 1].seg

\* C6 witness: a reply closed by on_done() whose bytes came in more than
\* one segment, the last one shorter than segment_bytes
C6_Witness ==
    /\ bas.end_of_response
    /\ Len(segs) >= 2
    /\ Len(segs[Len(segs)].data) < bas.segment_bytes
    /\ rx.fed = MaxSegBytes

\* C7: interrupt_and_get_progress_ms(), called with T ms received in the
\* epoch, Q ms queued and R ms remaining in the active segment, returns
\* T - Q - R, a value >= 0 and <= T.
C7_PlayedMsIsTminusQminusR ==
    /\ rx.last.ms = rx.last.T - rx.last.Q - rx.last.R
    /\ rx.last.ms >= 0
    /\ rx.last.ms <= rx.last.T

\* C8: a segment that was active, preloaded or queued at an interruption is
\* not made audible after it.
C8_PurgedNeverAudible ==
    \A i \in 1..Len(eng.audible) : ~eng.audible[i].purged

\* C9: a speech-started signal handled while no segment is active changes
\* nothing: the streamer's queue, buffer, counters and flags, the
\* CommandQueue, the engine and the timers are as before, and no truncate
\* request is sent; the handler just returns.
C9_SpeechStartedIdleIsNoOp ==
    [][(rx.pc = "speech" /\ bas.player = None /\ rx' # rx)
          => (/\ rx' = [rx EXCEPT !.pc = "idle"]
              /\ UNCHANGED <<bas, cmdq, eng, timers, segs>>)]_vars

\* C9 witness: in the first reply, with bytes buffered and nothing playing,
\* a speech-started signal has been handled (the reply is not finished and
\* there has been no interruption, so the second event was the signal)
C9_Witness ==
    /\ rx.pc = "idle"
    /\ rx.epochs = 1
    /\ rx.events = 2
    /\ ~bas.end_of_response
    /\ rx.truncs = <<>>
    /\ rx.last = RxInitial.last
    /\ bas.player = None
    /\ bas.buf # <<>>

\* C10: a speech-started signal handled while a segment is active sends
\* exactly one truncate request, with the item id of the open epoch (that
\* of the latest start_new_response) and the played-ms value the
\* interruption returned; no other step sends a truncate request.
C10_OneTruncatePerInterruption ==
    [][/\ (rx.pc = "vad" /\ rx'.pc = "idle")
            => rx'.truncs = Append(rx.truncs, [item_id |-> rx.epochs, ms |-> rx'.last.ms])
       /\ (rx'.truncs # rx.truncs) => rx.pc = "vad"]_vars

\* C10 witness: a truncate request with a positive played-ms value was sent
\* and the handler has returned
C10_Witness ==
    /\ rx.pc = "idle"
    /\ rx.truncs # <<>>
    /\ rx.truncs[Len(rx.truncs)].ms > 0

\* C11: right after start_new_response(item_id), whatever the scheduler held
\* before (segments queued, bytes buffered, a reply never closed): the
\* received-total and queued ms are 0, the segment queue and the byte buffer
\* are empty, the started and end-of-response flags are false and the
\* current item id is item_id.
C11_NewResponseResets ==
    [][(rx'.epochs # rx.epochs)
          => (/\ bas'.received_ms_total = 0
              /\ bas'.queued_ms = 0
              /\ bas'.queue = <<>>
              /\ bas'.buf = <<>>
              /\ ~bas'.started
              /\ ~bas'.end_of_response
              /\ CurrentItemId(bas') = rx'.item_id
              /\ rx'.item_id = rx.epochs + 1)]_vars

\* C11 witness: a second reply has started and nothing of it was fed yet,
\* while a segment of the first reply that was queued and never played exists
C11_Witness ==
    /\ rx.epochs = 2
    /\ rx.pc = "idle"
    /\ rx.truncs = <<>>
    /\ bas.received_ms_total = 0
    /\ bas.queue = <<>>
    /\ \A i \in 1..Len(segs) : segs[i].epoch = 1
    /\ \E i \in 1..Len(segs) :
          \A j \in 1..Len(eng.audible) : eng.audible[j].seg # i

\* C12: once a new epoch has begun no segment of an earlier epoch is made
\* audible (startTransmit on its player), whether it was preloaded, queued
\* or already dispatched to the CommandQueue, and once the reactor has
\* drained the CommandQueue no player of an earlier epoch is transmitting.
C12_OldEpochSilenced ==
    [][/\ \A i \in (Len(eng.audible) + 1)..Len(eng'.audible) :
              eng'.audible[i].epoch = rx'.epochs
       /\ (cmdq' = <<>>)
              => \A pl \in 1..Len(eng'.players) :
                     eng'.players[pl].st = "tx"
                         => segs'[eng'.players[pl].seg].epoch = rx'.epochs]_vars

QueuedSegs(s) == {s.queue[i].seg : i \in 1..Len(s.queue)}

\* segment k is the first one created in its epoch
FirstOfEpoch(g, k) == \A j \in 1..(k - 1) : g[j].epoch # g[k].epoch

\* C13: in every epoch, the first as well as the later ones, the first
\* segment leaves the queue for playback (by _start_next_locked or by an
\* overlap start) only when the duration queued, that segment included, has
\* reached the jitter threshold, or the epoch has ended.
C13_JitterGate ==
    [][(rx.pc # "vad" /\ rx'.epochs = rx.epochs)
          => \A k \in 1..Len(segs') :
                 (/\ FirstOfEpoch(segs', k)
                  /\ k \in QueuedSegs(bas) \/ k > Len(segs)
                  /\ k \notin QueuedSegs(bas'))
                     => \/ bas'.queued_ms + segs'[k].dur >= bas.jitter_ms
                        \/ bas'.end_of_response]_vars

\* C14: when a reply has been closed by on_done() with a segment queued,
\* playback has been started, also when the duration queued is below the
\* jitter threshold: a closed reply never waits in the queue unstarted.
C14_ShortReplyIsPlayed ==
    (bas.end_of_response /\ bas.queue # <<>>) => bas.started

\* C15: in every reachable state of the scheduler the queued ms plus the ms
\* remaining in the active segment do not exceed the received-total ms of
\* the epoch, also right after a new epoch has started while a segment of
\* the previous one is still active.
C15_QueuedPlusRemainingWithinReceived ==
    bas.queued_ms + CurrentRemainingMs(bas) <= bas.received_ms_total

RECURSIVE SumDur(_)
SumDur(g) == IF g = <<>> THEN 0 ELSE Head(g).dur + SumDur(Tail(g))

\* C16 as stated: for a reply fed and closed without interruption, the sum
\* of the declared durations of its segments, which is the received-total
\* ms, is exactly the duration of the bytes fed at the sample rate, for every
\* split of the bytes into deltas.
C16_TotalIsInputDurationExactly ==
    bas.end_of_response
        => /\ SumDur(segs) = bas.received_ms_total
           /\ bas.received_ms_total * bas.sample_rate = rx.fed * 1000

\* C16 amended: the sum of the declared durations, which is the
\* received-total ms, is the duration of the bytes fed truncated to whole
\* ms, for every split of the bytes into deltas (exact when the bytes fed
\* make a whole number of ms).
C16_TotalIsInputDurationTruncated ==
    bas.end_of_response
        => /\ SumDur(segs) = bas.received_ms_total
           /\ bas.received_ms_total = (rx.fed * 1000) \div bas.sample_rate

\* C16 witness: a closed reply of more than one segment whose bytes are no
\* whole number of ms
C16_Witness ==
    /\ bas.end_of_response
    /\ Len(segs) >= 2
    /\ (rx.fed * 1000) % bas.sample_rate # 0
    /\ bas.received_ms_total >= 1

(***************************************************************************)
(* Claims about the admission and the lifecycle of calls, checked under    *)
(* SpecCall.                                                               *)
(***************************************************************************)
CallIds == 1..Len(calls)

Filtered(c) == calls[c].caller.kind \in {"scanner", "nophone", "short"}

Queued(kind, c) == \E i \in 1..Len(cmdq) : cmdq[i].kind = kind /\ cmdq[i].pl = c

NoMediaEver(c) ==
    /\ calls[c].state # "confirmed"
    /\ ~Queued("answer", c)
    /\ ~calls[c].recording_path
    /\ calls[c].recorders = 0
    /\ calls[c].pumps = <<>>
    /\ calls[c].tails = 0
    /\ calls[c].bridges = 0
    /\ calls[c].streamers = 0

Disconnecting(c) == calls[c].state \in {"hangup", "disconnected"} \/ Queued("reject", c)

\* C17: a call turned away by a policy filter (scanner, no parsable
\* identity, number not of 11 digits) is never accepted, never has a
\* recording path, never starts a recorder, pump, tail reader, bridge or
\* scheduler, and is on its way to DISCONNECTING as soon as the handler has
\* returned: its hangup is queued or sent, or the call is disconnected.
C17_FilteredGoesToDisconnecting ==
    \A c \in CallIds : Filtered(c) => NoMediaEver(c) /\ Disconnecting(c)

\* the part of C17 about media alone
C17_FilteredStartsNoMedia == \A c \in CallIds : Filtered(c) => NoMediaEver(c)

\* C18: a call whose caller identity is in the pipeline's active set when
\* it arrives has a busy hangup put on the CommandQueue by the handler, and
\* from then on it is never answered, no answer is ever queued for it, and
\* it starts no recorder, pump, tail reader, bridge or scheduler.
C18_BusyCallerIsRejected ==
    [][\A c \in 1..Len(calls') :
          calls'[c].busy =>
              /\ NoMediaEver(c)'
              /\ c > Len(calls) => cmdq' = Append(cmdq, CallCmd("reject", c))]_vars

\* C18 witness: the reactor has run the busy hangup of such a call
C18_Witness ==
    \E c \in CallIds : calls[c].busy /\ calls[c].state = "hangup" /\ ~Queued("reject", c)

InRegistry(reg, c) == \E k \in 1..Len(reg) : reg[k] = c

SameIdentity(c, d) ==
    /\ calls[c].caller.kind = "ru"
    /\ calls[d].caller.kind = "ru"
    /\ calls[c].caller.digits = calls[d].caller.digits

\* C19: Account.calls never holds two Call objects of the same caller
\* identity at the same time.
C19_OneSessionPerIdentity ==
    \A i, j \in 1..Len(registry) :
        i # j => ~SameIdentity(registry[i], registry[j])

\* the other part of C19: the arrival of a call that is rejected as busy,
\* and the run of its hangup, leave every other call as it was: its fields
\* (recording path, stop signal, components) and its place in the registry.
C19_RejectLeavesOthersUntouched ==
    [][\A c \in 1..Len(calls') :
          (calls'[c].busy /\ (c > Len(calls) \/ (HeadIs("reject") /\ QGetItem(cmdq).pl = c
                                                   /\ cmdq' = QGetRest(cmdq))))
              => \A d \in CallIds \ {c} :
                    /\ calls'[d] = calls[d]
                    /\ InRegistry(registry', d) <=> InRegistry(registry, d)]_vars

\* two calls of one identity, both answered and in the registry
C19_TwoLiveSessions ==
    \E c, d \in CallIds :
        /\ c # d
        /\ SameIdentity(c, d)
        /\ calls[c].state = "confirmed" /\ calls[d].state = "confirmed"
        /\ InRegistry(registry, c) /\ InRegistry(registry, d)

\* the ingress pump threads of a call that have not ended
LivePumps(c) == {i \in 1..Len(calls[c].pumps) : calls[c].pumps[i] # "done"}

\* C20: at any time a call has at most one ingress pump thread, one open
\* tail reader, one bridge that is not closed and one scheduler, whatever
\* media-state events and bridge callbacks it has seen.
C20_OneSetOfComponents ==
    \A c \in CallIds :
        /\ Cardinality(LivePumps(c)) <= 1
        /\ calls[c].tails <= 1
        /\ calls[c].bridges <= 1
        /\ calls[c].streamers <= 1

\* the scheduler alone: however many bridges call back, one is made
C20_OneScheduler == \A c \in CallIds : calls[c].streamers <= 1

(***************************************************************************)
(* Claims about the end of a call, checked under SpecTeardown.             *)
(***************************************************************************)
\* the commands the disconnect handler queues when player p is active
TeardownCmds(p) ==
    (IF p # None THEN <<BasCmd("close_stop", 0, 0, p)>> ELSE <<>>)
        \o <<CallCmd("cleanup_media", 1), CallCmd("finalize", 1)>>

QueuedKind(kind) == \E i \in 1..Len(cmdq) : cmdq[i].kind = kind

\* C21: the disconnect handler sets the stop signal, closes the scheduler
\* and appends to the CommandQueue the stop of the player in flight (if
\* there is one), then the media release, then finalize; on the reactor the
\* media release runs only after that stop has run, and finalize only
\* after the media release.
C21_TeardownOrder ==
    /\ [][calls'[1].state = "disconnected" /\ calls[1].state # "disconnected"
            => /\ calls'[1].stop_stream
               /\ bas'.player = None /\ bas'.end_of_response /\ bas'.queue = <<>>
               /\ cmdq' = cmdq \o TeardownCmds(bas.player)]_vars
    /\ [](calls[1].state = "disconnected" /\ ~QueuedKind("cleanup_media")
            => ~QueuedKind("close_stop") /\ ~calls[1].audio_media)
    /\ [](calls[1].deleted => ~QueuedKind("cleanup_media") /\ ~QueuedKind("finalize"))
    /\ [](calls[1].state = "disconnected" => QueuedKind("finalize") \/ calls[1].deleted)

\* C21 witness: the call ended while a player was transmitting; its stop,
\* the media release and finalize are queued in that order
C21_Witness ==
    /\ calls[1].state = "disconnected"
    /\ Len(cmdq) >= 3
    /\ SubSeq(cmdq, Len(cmdq) - 2, Len(cmdq)) = TeardownCmds(cmdq[Len(cmdq) - 2].pl)
    /\ cmdq[Len(cmdq) - 2].kind = "close_stop"
    /\ eng.players[cmdq[Len(cmdq) - 2].pl].st = "tx"

(***************************************************************************)
(* Claims about finalize, checked under SpecFinal.                         *)
(***************************************************************************)
\* the registry without the entries of Call c
Others(reg, c) == SelectSeq(reg, LAMBDA d : d # c)

FinalizeRuns(c) ==
    HeadIs("finalize") /\ QGetItem(cmdq).pl = c /\ cmdq' = QGetRest(cmdq)

\* C22: once finalize has run for a call, its engine handle is released
\* and it is not in Account.calls; a run of finalize leaves the entries of
\* all other calls as they are, and a run for a call already finalized
\* changes neither the calls nor the registry.
C22_FinalizeIdempotent ==
    /\ [](\A c \in CallIds : calls[c].deleted => ~InRegistry(registry, c))
    /\ [][\A c \in CallIds :
            FinalizeRuns(c) =>
                /\ calls'[c].deleted /\ ~InRegistry(registry', c)
                /\ Others(registry', c) = Others(registry, c)
                /\ \A d \in CallIds \ {c} : calls'[d] = calls[d]
                /\ calls[c].deleted => calls' = calls /\ registry' = registry]_vars

\* C22 witness: a call already finalized whose finalize is at the head of
\* the queue once more, with another call in the registry
C22_Witness ==
    \E c \in CallIds :
        /\ calls[c].deleted
        /\ HeadIs("finalize") /\ QGetItem(cmdq).pl = c
        /\ registry # <<>>

(***************************************************************************)
(* Claims about failures inside the engine-event handlers, checked under   *)
(* SpecFault.                                                              *)
(***************************************************************************)
\* C23: no exception leaves an engine-event handler (incoming call, state
\* change, media state), and a call the engine has reported DISCONNECTED
\* has its finalize queued or run, whichever step of the handler failed.
C23_HandlersCatchEverything ==
    \A c \in CallIds :
        /\ ~calls[c].escaped
        /\ calls[c].state = "disconnected" => Queued("finalize", c) \/ calls[c].deleted

\* the part of C23 the code does provide: a failure of the scheduler's
\* close() does not keep finalize from being queued
C23_CloseFailureStillFinalizes ==
    [][\A c \in CallIds :
          (calls[c].state # "disconnected" /\ calls'[c].state = "disconnected"
              /\ ~calls'[c].escaped)
            => cmdq' = cmdq \o <<CallCmd("cleanup_media", c), CallCmd("finalize", c)>>]_vars

\* C24: close() is idempotent: from every state of the scheduler, a second
\* close() directly after the first leaves the scheduler, the CommandQueue
\* and the engine exactly as the first left them, so the stop of the active
\* player is queued once.
C24_CloseIdempotent ==
    LET once == CloseLocked(World)
        twice == CloseLocked(once)
    IN  /\ twice = once
        /\ bas.player # None =>
              Len(SelectSeq(twice.q, LAMBDA c : c.kind = "close_stop" /\ c.pl = bas.player)) = 1

\* C24 witness: close() has run on a scheduler whose player was active
\* and segments were still queued behind it
C24_Witness ==
    /\ calls[1].state = "disconnected"
    /\ QueuedKind("close_stop")
    /\ bas.end_of_response /\ bas.player = None /\ bas.queue = <<>>
    /\ Len(segs) >= 2

(***************************************************************************)
(* Claims about the tail reader, checked under SpecTail.                   *)
(***************************************************************************)
\* C25: the k-th frame yielded (k from 0) is the frame_bytes bytes of the
\* file from 44 + k * frame_bytes on, so frames are contiguous, do not
\* overlap and repeat no byte; the file holds all the bytes of every frame
\* yielded.
C25_FramesAreConsecutiveSlices ==
    \A k \in 1..Len(tail.frames) :
        /\ tail.frames[k] = [from |-> HeaderBytes + (k - 1) * frame_bytes, len |-> frame_bytes]
        /\ tail.frames[k].from + tail.frames[k].len <= tail.size

\* C25 witness: two frames yielded from a file grown to a size that is no
\* whole number of frames
C25_Witness ==
    /\ Len(tail.frames) >= 2
    /\ (tail.size - HeaderBytes) % frame_bytes # 0

\* C26: when iter_chunks has ended on the stop signal, the offset of the
\* reader is the size the file had when the signal was set.
C26_OffsetIsSizeAtStop ==
    (tail.pc = "done" /\ tail.stop) => tail.offset = tail.stop_size

\* C27: no frame is yielded after the stop signal has been set.
C27_NoFrameAfterStop ==
    tail.stop => Len(tail.frames) = tail.stop_frames

\* the other part of C27: once the signal is set or the file is missing,
\* iter_chunks ends
C27_Terminates == (tail.stop \/ ~tail.exists) ~> (tail.pc = "done")

(***************************************************************************)
(* Claims about the bridge, checked under SpecBridge.                      *)
(***************************************************************************)
RtIds == 1..Len(conn.rts)

PumpIds == 1..Len(conn.pumps)

\* the frames pump i has written as append events, on any connection
AppendedBy(i) ==
    UNION {{conn.rts[r].sent[n].k : n \in {m \in 1..Len(conn.rts[r].sent) :
                conn.rts[r].sent[m].type = "append" /\ conn.rts[r].sent[m].by = i}}
           : r \in RtIds}

\* on every connection the append events of pump i are in the order yielded
InOrder(i) ==
    \A r \in RtIds : \A m, n \in 1..Len(conn.rts[r].sent) :
        (m < n /\ conn.rts[r].sent[m].type = "append" /\ conn.rts[r].sent[n].type = "append"
              /\ conn.rts[r].sent[m].by = i /\ conn.rts[r].sent[n].by = i)
            => conn.rts[r].sent[m].k < conn.rts[r].sent[n].k

\* C28, the part about the lock: at most one thread is inside a write to a
\* connection at any time
C28_OneWriter == \A r \in RtIds : Cardinality(conn.rts[r].inside) <= 1

\* C28, the part about the frames: every frame a tail reader has yielded to
\* its pump is written as one append event, in the order yielded
FramesSent ==
    \A i \in PumpIds :
        /\ InOrder(i)
        /\ conn.pumps[i].pc \notin {"frame", "frame_in"}
              => AppendedBy(i) = 1..conn.pumps[i].yielded

\* C28: at most one thread is inside a write to the AI connection at any
\* time, and every ingress frame yielded by the tail reader is sent as one
\* append event in the order yielded
C28_SerializedAndComplete == C28_OneWriter /\ FramesSent

\* C28 for a call with one media-active event
C28_OneMediaEvent == Len(conn.rts) <= 1 => C28_SerializedAndComplete

\* a pump whose connect() gave up writes nothing and, once it has ended,
\* has closed the RealtimeClient it tried to connect
TimeoutContained(i) ==
    /\ conn.pumps[i].yielded = 0
    /\ \A r \in RtIds : \A n \in 1..Len(conn.rts[r].sent) :
          conn.rts[r].sent[n].by = i => conn.rts[r].sent[n].type = "close"
    /\ conn.pumps[i].pc = "done" => conn.pumps[i].closed = conn.pumps[i].connected

\* C30: if the connection does not open within the bounded wait, connect()
\* fails; the pump then sends no session configuration and no audio
\* frame and closes the bridge it tried to open
C30_ConnectTimeoutIsContained ==
    \A i \in PumpIds : conn.pumps[i].timed_out => TimeoutContained(i)

\* C30 for a call with one media-active event
C30_OneMediaEvent == Len(conn.rts) <= 1 => C30_ConnectTimeoutIsContained


\* the payload is base64 (RFC 4648): alphabet characters only, padded to a
\* multiple of four
IsBase64(d, p, j) ==
    /\ j = 0
    /\ \/ d % 4 = 0 /\ p = 0
       \/ d % 4 = 2 /\ p = 2
       \/ d % 4 = 3 /\ p = 1

\* a message the endpoint should not have sent: not JSON, JSON that is not
\* an object, or an audio delta whose payload is not base64
Malformed(m) ==
    \/ m.kind \in {"not_json", "not_object"}
    \/ m.kind = "delta" /\ ~IsBase64(m.d, m.p, m.j)

Delivered == conn'.msgs = conn.msgs + 1

\* C29: a malformed inbound message is ignored: the handler raises
\* nothing and no scheduler state changes when one is delivered (and the
\* messages after it are handled as the code handles them)
C29_MalformedIsIgnored ==
    [][(Delivered /\ Malformed(conn'.msg))
          => /\ conn'.escaped = conn.escaped
             /\ UNCHANGED <<bas, cmdq, eng, timers, segs>>]_vars

\* C29, the part the handler keeps: what is not JSON is ignored
C29_NotJsonIsIgnored ==
    [][(Delivered /\ conn'.msg.kind = "not_json")
          => /\ conn'.escaped = conn.escaped
             /\ UNCHANGED <<bas, cmdq, eng, timers, segs>>]_vars


(***************************************************************************)
(* Claims about the pump thread at disconnect, checked under SpecPump.     *)
(***************************************************************************)
Appends == {n \in 1..Len(conn.rts[1].sent) : conn.rts[1].sent[n].type = "append"}

Closes == {n \in 1..Len(conn.rts[1].sent) : conn.rts[1].sent[n].type = "close"}

\* C31, the part about the signal: once set it stays set
C31_StopStaysSet == [][tail.stop => tail'.stop]_vars

\* C31, the part about the frames: after the stop signal the pump sends no
\* audio frame but those the reader had yielded when it was set and the one
\* it may have been reading at that moment
C31_NoFrameSentAfterStop == tail.stop => Cardinality(Appends) <= tail.stop_frames + 1

\* C31, the part about the end: the pump has closed the bridge and the tail
\* reader once each when it has ended, and never more than once
C31_ClosedOnceEach ==
    /\ Cardinality(Closes) <= 1
    /\ conn.pumps[1].tail_closed <= 1
    /\ conn.pumps[1].pc = "done" => Cardinality(Closes) = 1 /\ conn.pumps[1].tail_closed = 1

\* C31, the part about termination: after the stop signal the pump
\* eventually leaves its loop and ends
C31_PumpEnds == tail.stop ~> conn.pumps[1].pc = "done"

\* C31: once the disconnect event has set the stop signal, the pump sends
\* no further audio frame and closes the bridge and the tail reader exactly
\* once each
C31_StopEndsThePump == C31_NoFrameSentAfterStop /\ C31_ClosedOnceEach


(***************************************************************************)
(* Claims about the chaining of segments within one reply, checked under   *)
(* SpecSeg.                                                                *)
(***************************************************************************)
\* the number of times startTransmit made a player of segment k audible
Starts(k) == Cardinality({i \in 1..Len(eng.audible) : eng.audible[i].seg = k})

\* the reactor runs _start_preloaded and it starts the preloaded player
OverlapActivation ==
    /\ HeadIs("start_preloaded")
    /\ Len(eng'.audible) > Len(eng.audible)

\* C32, the first part: no segment is started twice, whichever of the
\* overlap timer and the end-of-file callback comes first
C32_NeverStartedTwice == \A k \in 1..Len(segs) : Starts(k) <= 1

\* C32, the second part: the segment an overlap activation removes from the
\* queue is the segment of the preloaded player it starts
C32_OverlapPopsItsOwnSegment ==
    [][(OverlapActivation /\ bas.queue # <<>>)
          => Head(bas.queue).seg = eng.players[QGetItem(cmdq).pl].seg]_vars

\* C32: the overlap timer and the end-of-file callback are competing
\* triggers of one transition: exactly one of them activates a segment and
\* the other is a no-op, so no segment is started twice, and the segment
\* an overlap activation removes from the queue is the one it starts
C32_OneTriggerWins ==
    /\ []C32_NeverStartedTwice
    /\ C32_OverlapPopsItsOwnSegment


(***************************************************************************)
(* Claims about the end-of-file chain, checked under SpecEof.              *)
(***************************************************************************)
SegIds == 1..MaxSegBytes

\* segment k has been created and queued
Created(k) == k <= Len(segs)

\* C33: if overlap timers never fire, every segment queued in the epoch is
\* eventually started through the end-of-file chain alone, under a fair
\* reactor
C33_EofChainStartsEverySegment ==
    \A k \in SegIds : Created(k) ~> Starts(k) >= 1

\* C33 for the segments of a reply whose playback has begun
C33_EofChainAfterStart ==
    \A k \in SegIds : (Created(k) /\ Starts(1) >= 1) ~> Starts(k) >= 1


(***************************************************************************)
(* Claims about the pause at the end of the queue, checked under SpecSeg.  *)
(***************************************************************************)
\* the segments whose _play_next is on the CommandQueue
DispatchedSegs(q) == {q[i].seg : i \in {j \in 1..Len(q) : q[j].kind = "play_next"}}

\* the reactor runs the _advance of the active player
AdvanceOfActive ==
    /\ HeadIs("advance")
    /\ bas.player = QGetItem(cmdq).pl
    /\ eng'.players[QGetItem(cmdq).pl].st = "deleted"

\* playback has begun, a player has been played to its end and removed,
\* and nothing is active, queued or on its way to the reactor
PausedAfterEof ==
    /\ bas.started
    /\ bas.player = None
    /\ bas.queue = <<>>
    /\ DispatchedSegs(cmdq) = {}
    /\ \E pl \in 1..Len(eng.players) : eng.players[pl].st = "deleted"

\* C34: if the active segment reaches end-of-file while the queue is empty,
\* playback pauses with no active player; the next segment created in the
\* same epoch, by feed() or by the remainder flush of on_done(), is
\* dispatched for playback in that very call, whatever its duration
C34_PauseThenImmediateDispatch ==
    /\ [][(AdvanceOfActive /\ bas.queue = <<>>)
              => (bas'.player = None /\ DispatchedSegs(cmdq') = {})]_vars
    /\ [][(PausedAfterEof /\ Len(segs') > Len(segs))
              => (Len(segs) + 1) \in DispatchedSegs(cmdq')]_vars

\* C34 witness: the remainder of a reply, shorter than the jitter
\* threshold, on its way to the reactor after the first segment was played
\* to its end
C34_Witness ==
    /\ Len(eng.players) = 1
    /\ eng.players[1].st = "deleted"
    /\ bas.player = None
    /\ bas.end_of_response
    /\ \E i \in 1..Len(cmdq) :
          cmdq[i].kind = "play_next" /\ cmdq[i].seg = 2 /\ cmdq[i].dur < bas.jitter_ms


(***************************************************************************)
(* Claims about the starts in flight, checked under SpecSeg.               *)
(***************************************************************************)
\* the _play_next commands on the CommandQueue
PendingStarts == {i \in 1..Len(cmdq) : cmdq[i].kind = "play_next"}

\* the players started by a _play_next that are transmitting
TransmittingPlayers == {pl \in 1..Len(eng.players) : eng.players[pl].st = "tx"}

\* a step of the receive thread: feed() or on_done()
ReceiveStep == rx' # rx \/ (bas'.end_of_response /\ ~bas.end_of_response)

\* the reactor runs a _play_next and the segment becomes audible
PlayNextStarts ==
    /\ HeadIs("play_next")
    /\ Len(eng'.audible) > Len(eng.audible)

\* C35, the first part: at most one _play_next is on its way to the reactor
C35_OnePendingStart == Cardinality(PendingStarts) <= 1

\* C35, the second part: while a dispatched segment is on its way to the
\* reactor or is transmitting, feed() and on_done() dispatch no further one
C35_ReceiveDispatchesNothingMore ==
    [][(ReceiveStep /\ (PendingStarts # {} \/ TransmittingPlayers # {}))
          => DispatchedSegs(cmdq') \subseteq DispatchedSegs(cmdq)]_vars

\* C35, the third part: a segment started by _play_next is never made
\* audible while another player is transmitting
C35_PlayNextStartsAlone == [][PlayNextStarts => TransmittingPlayers = {}]_vars

\* C35: the scheduler never has two segment starts in flight: once a
\* segment has been dequeued and its play command enqueued, neither feed()
\* nor on_done() dispatches a further segment before it has reached
\* end-of-file or been stopped, and the non-overlap path never makes two
\* segments audible at the same time
C35_OneStartInFlight ==
    /\ []C35_OnePendingStart
    /\ C35_ReceiveDispatchesNothingMore
    /\ C35_PlayNextStartsAlone


(***************************************************************************)
(* Claims about the scheduler's counters.                                  *)
(***************************************************************************)
\* C36: in every reachable scheduler state the queued-ms counter equals the
\* sum of the durations of the segments in the queue, and
\* 0 <= queued ms <= received-total ms
C36_QueuedMsIsTheQueue ==
    /\ bas.queued_ms = SumDur(bas.queue)
    /\ 0 <= bas.queued_ms
    /\ bas.queued_ms <= bas.received_ms_total

\* C36 witness: in a second reply one segment has been taken off the queue
\* and started and another one is waiting
C36_Witness ==
    /\ rx.epochs >= 2
    /\ bas.queue # <<>>
    /\ 0 < bas.queued_ms
    /\ bas.queued_ms < bas.received_ms_total
    /\ bas.player # None


(***************************************************************************)
(* Claims about the active-player reference.                               *)
(***************************************************************************)
\* C37, the first part: whenever is_playing() is true the active-player
\* reference denotes a player that has been started and has not been
\* stopped or deleted
C37_ActiveIsStarted ==
    IsPlaying(bas) => eng.players[bas.player].st \in {"tx", "eof"}

\* C37, the second part: the reference never denotes the player of a
\* segment that was active, preloaded or queued at an interruption
C37_EmptyAfterInterruption ==
    IsPlaying(bas) => eng.players[bas.player].seg \notin eng.purged

\* C37: whenever is_playing() is true the active-player reference denotes
\* a started player that has not been stopped or deleted, and after an
\* interruption the reference stays empty until a segment created
\* afterwards is started
C37_ActiveReferenceIsLive ==
    /\ C37_ActiveIsStarted
    /\ C37_EmptyAfterInterruption


(***************************************************************************)
(* Claims about the end of an epoch.                                       *)
(***************************************************************************)
\* the last segment of a finished reply reaches its end: the reactor runs
\* the _advance of the active player after on_done(), with nothing queued
LastSegmentEnds ==
    /\ AdvanceOfActive
    /\ bas.end_of_response
    /\ bas.queue = <<>>
    /\ DispatchedSegs(cmdq) = {}

\* on_done() arrives after everything fed so far has been played to its end
DoneAfterLastSegment ==
    /\ ~bas.end_of_response
    /\ bas'.end_of_response
    /\ PausedAfterEof
    /\ segs' = segs

\* C38: when an epoch finishes naturally (on_done received and its last
\* segment has reached end-of-file with the queue empty) the scheduler is
\* idle again: the started flag and the end-of-response flag are both false
C38_IdleAfterNaturalFinish ==
    [][(LastSegmentEnds \/ DoneAfterLastSegment)
          => (~bas'.started /\ ~bas'.end_of_response)]_vars


(***************************************************************************)
(* Claims about the scheduler lock, checked under SpecLockLive.            *)
(***************************************************************************)
\* a thread can take its next step
CanStep(t) == lk.pc[t] # <<>> /\ (NextOp(t).op = "acquire" => lk.holder = "free")

\* C39, the first part: the lock is never requested by the thread holding it
C39_NeverReacquired == \A t \in Threads : At(t, "acquire") => lk.holder # t

\* C39, the second part: the holder of the lock is on its way to releasing
\* it: it only puts, which never waits, and it is never the reactor
\* between two commands, about to take from the queue
C39_NoWaitUnderLock ==
    lk.holder # "free" =>
        /\ lk.pc[lk.holder] # <<>>
        /\ NextOp(lk.holder).op \in {"put", "release"}

\* C39, the third part: whenever something is left to do, some thread can
\* do it
C39_NoDeadlock ==
    ((\E t \in Threads : lk.pc[t] # <<>>) \/ cmdq # <<>>)
        => ((\E t \in Threads : CanStep(t)) \/ (lk.pc["reactor"] = <<>> /\ cmdq # <<>>))

\* C39, the fourth part: the n-th command put is eventually taken and
\* called by the reactor
C39_EveryCommandExecuted ==
    \A n \in 1..MaxLockPuts : (lk.puts >= n) ~> (lk.executed >= n)

\* C39: the scheduler lock is never requested by a thread that already
\* holds it and no thread waits on the CommandQueue while holding it; for
\* every interleaving of the receive thread, the timer threads and the
\* reactor the system is deadlock-free and every command enqueued is
\* eventually executed by a fair reactor
C39_LockAndQueueAreLive ==
    /\ [](C39_NeverReacquired /\ C39_NoWaitUnderLock /\ C39_NoDeadlock)
    /\ C39_EveryCommandExecuted

\* C39 witness: the receive thread puts a command while holding the lock
\* and the reactor, inside a command it has taken from the queue, waits
\* for the lock
C39_Witness ==
    /\ lk.holder = "rx"
    /\ At("rx", "put")
    /\ At("reactor", "acquire")
    /\ lk.executed > 0


(***************************************************************************)
(* Claims about the busy guard of the pipeline, checked under SpecPipe.    *)
(***************************************************************************)
\* the runs of an identity that have been accepted and whose done callback
\* has not been called
OpenRuns(phone) ==
    {i \in FutureIds : pool.futures[i].phone = phone /\ ~pool.futures[i].called_back}

\* C40, the first part: at most one run per identity at a time
C40_OneRunPerIdentity == \A phone \in PipePhones : Cardinality(OpenRuns(phone)) <= 1

\* C40, the second part: is_processing() is true for an identity exactly
\* from its accepted submit() until its run has completed
C40_BusyExactlyWhileRunning ==
    \A phone \in PipePhones : IsProcessing(active, phone) <=> OpenRuns(phone) # {}

\* C40, the third part: no identity stays busy forever
C40_NeverBusyForever ==
    \A phone \in PipePhones : IsProcessing(active, phone) ~> ~IsProcessing(active, phone)

\* C40: the busy guard admits at most one run per caller identity at a
\* time, is_processing() is true for an identity exactly from its accepted
\* submit() until its run completes, and the identity is removed when the
\* run ends, whether it succeeded, failed or was cancelled
C40_BusyGuard ==
    /\ C40_OneRunPerIdentity
    /\ C40_BusyExactlyWhileRunning

=============================================================================
